---------------------------- MODULE Spec2Model ----------------------------
(***************************************************************************)
(* State-machine model of the sensor multiplexing service                  *)
(* (services/sensorservice/SensorService.cpp).                             *)
(*                                                                         *)
(* The service state guarded by mLock is modelled by the variables below.  *)
(* Every public entry point that takes mLock is one atomic action.  The    *)
(* collaborators whose code lives in other translation units               *)
(* (SensorEventConnection, SensorDirectConnection, SensorRecord,           *)
(* RecentEventLogger, SensorList, SensorDevice) are modelled from their    *)
(* documented contracts.                                                   *)
(***************************************************************************)
EXTENDS Integers, Sequences, FiniteSets, TLC

(***************************************************************************)
(* Bounds of the model.                                                    *)
(***************************************************************************)
MaxBatch == 2
MaxRefCount == 2
MaxFlush == 2
MaxRate == 2

(***************************************************************************)
(* Status codes (utils/Errors.h names used by SensorService.cpp).          *)
(***************************************************************************)
NO_ERROR == "NO_ERROR"
BAD_VALUE == "BAD_VALUE"
INVALID_OPERATION == "INVALID_OPERATION"
HAL_ERROR == "TRANSACTION_FAILED"

(***************************************************************************)
(* Operating modes.                                                        *)
(***************************************************************************)
NORMAL == "NORMAL"
RESTRICTED == "RESTRICTED"
DATA_INJECTION == "DATA_INJECTION"
REPLAY_DATA_INJECTION == "REPLAY_DATA_INJECTION"
HAL_BYPASS_REPLAY_DATA_INJECTION == "HAL_BYPASS_REPLAY_DATA_INJECTION"
Modes == {NORMAL, RESTRICTED, DATA_INJECTION, REPLAY_DATA_INJECTION,
          HAL_BYPASS_REPLAY_DATA_INJECTION}

isInjectionMode(mode) ==
    mode = DATA_INJECTION \/ mode = REPLAY_DATA_INJECTION
        \/ mode = HAL_BYPASS_REPLAY_DATA_INJECTION

(***************************************************************************)
(* The sensor catalogue.  Handles 1..3 are platform sensors returned by    *)
(* the HAL sensor list, handle 4 is a dynamic sensor announced through     *)
(* DYNAMIC_SENSOR_META, handle 9 is never registered.                      *)
(***************************************************************************)
\* ISensors::RUNTIME_SENSORS_HANDLE_BASE / _END, scaled to a range of two handles
RUNTIME_SENSORS_HANDLE_BASE == 5
RuntimeRange == 2
RUNTIME_SENSORS_HANDLE_END == RUNTIME_SENSORS_HANDLE_BASE + RuntimeRange

ACCEL == 1
PROX == 2
SIGMOTION == 3
DYNSENSOR == 4
NOSENSOR == 9
\* handle 8 is a virtual (fusion) sensor computed from the accelerometer
GRAVITY == 8
\* a second dynamic sensor, and the HAL's dynamic meta sensor
DYNSENSOR2 == 10
DYNMETA == 11
Handles == {ACCEL, PROX, SIGMOTION, DYNSENSOR, GRAVITY, DYNSENSOR2}

CONTINUOUS == "continuous"
ON_CHANGE == "on_change"
ONE_SHOT == "one_shot"

getReportingMode(h) ==
    CASE h = ACCEL -> CONTINUOUS
      [] h = PROX -> ON_CHANGE
      [] h = SIGMOTION -> ONE_SHOT
      [] OTHER -> CONTINUOUS

isWakeUpSensor(h) == h \in {PROX, SIGMOTION}

isVirtual(h) == h = GRAVITY

(***************************************************************************)
(* Clients.  Event connections A and B, direct connections D1 and D2.      *)
(* Package names are sequences of name segments; "contains" is the         *)
(* substring test of String8::contains (strstr).                           *)
(***************************************************************************)
Conns == {"A", "B"}

\* UidState, and the absence of any state given to the device
UID_STATE_ACTIVE == "ACTIVE"
UID_STATE_IDLE == "IDLE"
UID_STATE_NONE == "none"
Directs == {"D1", "D2"}
NoConn == "none"

\* Caller threads of registerRuntimeSensor, and a call's state: its position
\* (idle, read: has read nextHandle, drawn: holds a handle it found new and is
\* about to take mLock), the value it read or drew, and the last result.
RuntimeCallers == {"R1", "R2"}
RuntimeIdle == [pc |-> "idle", handle |-> 0, result |-> 0]

\* Sensor::uuid_t as its two int64 halves; calling UIDs; int32 hash values
UUID_ZERO == <<0, 0>>
UUID_ONES == <<-1, -1>>
DynamicUuids == {<<0, -1>>, <<-1, 0>>}
Uuids == {UUID_ZERO, UUID_ONES} \cup DynamicUuids
AppUids == {10001, 10002}
MaxHash == 2
HashValues == (-MaxHash)..MaxHash
IdIdle == [pc |-> "idle", uuid |-> UUID_ZERO, uid |-> 10001, hmacOk |-> TRUE,
           hashLen |-> 0, id |-> 0]

PkgEmpty == << >>
PkgTest == <<"com", "test">>
PkgOther == <<"com", "other">>
PkgTestSuffix == <<"com", "test", "helper">>

getPackageName(c) ==
    CASE c = "A" -> PkgOther
      [] c = "B" -> PkgTestSuffix
      [] c = "D1" -> PkgOther
      [] c = "D2" -> PkgTest
      [] OTHER -> PkgEmpty

contains(s, other) ==
    \E i \in 0..(Len(s) - Len(other)) :
        \A j \in 1..Len(other) : s[i + j] = other[j]

VARIABLES
    mSensors,                 \* registry: handles currently registered
    usedHandles,              \* registry: every handle ever registered
    mRecentEvent,             \* handle -> recent-event logger
    mActiveSensors,           \* handle -> SensorRecord
    mActiveVirtualSensors,    \* handles of active virtual sensors
    mActiveConnections,       \* connection holder: active event connections
    mDirectConnections,       \* connection holder: direct connections
    mSensorInfo,              \* connection -> subscribed handles
    mFirstFlushPending,       \* connection -> handles gated on a first flush
    mWakeLockRefCount,        \* connection -> unacknowledged wake-up events
    mWakeLockAcquired,        \* the system wakelock flag
    mCurrentOperatingMode,
    mAllowListedPackage,
    mSensorPrivacyEnabled,
    mActiveUids,              \* UIDs (one per direct connection) that are active
    mActivated,               \* direct connection -> configured rate level
    mActivatedBackup,         \* direct connection -> backed-up rate level
    halClients,               \* SensorDevice: handle -> connections that activated it
    halPendingFlush,          \* HAL: handle -> flush completions still to be polled
    devEnabled,               \* SensorDevice: FALSE after disableAllSensors
    halMode,                  \* SensorDevice: mode accepted by setMode
    isUserBuild,              \* SensorServiceUtil::isUserBuild() of this image
    halDynamic,               \* the HAL announces dynamic sensors
    mSensorEventBuffer,       \* the batch poll returned to the last call, when
                              \* that call was a dispatch cycle
    mMapFlushEventsToConnections, \* per index of the batch dispatched by the last
                              \* call, the connection a META_DATA is for (the
                              \* entries are rewritten before they are read)
    sent,                     \* connection -> events written to its socket by the last call
    ret,                      \* status returned by the last call
    awaitingAck,              \* connections holding an unacknowledged wake-up event
    awaitingFlushComplete,    \* connections whose latest successful flush() of ACCEL
                              \* was not yet followed by a META_DATA written to them
    nextHandle,               \* the static counter of nextRuntimeSensorHandle()
    runtimeCall,              \* caller thread -> its registerRuntimeSensor call
    sHmacGlobalKeyIsValid,    \* result of initializeHmacKey()
    hmacTable,                \* <<uuid, uid>> -> first four bytes, as an int32, of
                              \* HMAC-SHA256 under sHmacGlobalKey
    idCall,                   \* the last getIdFromUuid call and its result
    mSensorFlags,             \* registry: flags of the sensors registered from a
                              \* DYNAMIC_SENSOR_META event
    halDynamicSensors,        \* SensorDevice: the dynamic sensors it holds connected
    dynamic_sensor_hal_reconnect_handling, \* the build's flag of that name
    mDynamicMetaSensorHandle, \* optional: {} or the meta sensor's handle
    reconnection,             \* the dispatch thread: polling, or inside
                              \* handleDeviceReconnection at a position of its loop
    mLooperWake,              \* mLooper: a wake() not yet consumed by pollOnce
    heldWakeLocks,            \* power manager: acquire_wake_lock calls minus
                              \* release_wake_lock calls
    mHtRestricted,            \* the head-tracker restriction
    halUidState,              \* SensorDevice: the state last given to
                              \* setUidStateForConnection, per event connection
    mOverrideUids,            \* UidPolicy::mOverrideUids: the UIDs the shell has
                              \* forced active (TRUE) or idle (FALSE)
    shellCall,                \* the last shellCommand call: its arguments, what it
                              \* returned and the parity of the number of calls
    mLastNSensorRegistrations, \* the registration ring
    mNextSensorRegIndex,      \* the ring's next index
    registrations,            \* every registration entry written so far, oldest
                              \* first (history, not program state)
    dumpOut,                  \* the dump in progress: the registration entries it
                              \* has printed and the iterations of its loop
    mRuntimeSensorEventQueue, \* the injected events not yet dequeued, oldest first
    mRuntimeSensorHandler,    \* whether the RuntimeSensorHandler thread was started
    runtimeThread,            \* the RuntimeSensorHandler thread: its position in
                              \* processRuntimeSensorEvents
    mRuntimeSensorEventBuffer, \* the first count slots of the thread's buffer
    runtimeEnqueued,          \* every event sendRuntimeSensorEvent pushed, in order
    runtimeDequeued,          \* every event the thread popped, in order
    runtimeHanded,            \* the batches the thread handed to the active
                              \* connections, in order
    mProximityActiveListeners, \* the proximity listeners, in the order they were added
    mLastReportedProxIsActive, \* the proximity state last reported to the listeners
    curProxCallbackSeq, \* the sequence number of the last notification issued
    completedCallbackSeq, \* the sequence number of the last notification delivered
    proxThreads, \* sequence number -> the detached thread that holds it
    proxDelivered, \* the onProximityActive calls made, in order
    proxCall, \* the last addProximityActiveListener or removeProximityActiveListener call
    periodCall,               \* the last computation of a sampling period for the
                              \* HAL, by enable or by setEventRate, and its outcome
    expandCall,               \* the last virtual-sensor expansion: the polled count,
                              \* the sensors, the indices written and the outcome
    directMem,                \* the shared memory of each direct connection
    directCall,               \* the last createSensorDirectConnection call: its
                              \* arguments, what it registered, cloned and closed,
                              \* and the connection it returned
    accessCall,               \* the last canAccessSensor call and its result
    rateCall,                 \* the last adjustSamplingPeriodBasedOnMicAndPermission
                              \* call, the period it left and its status
    createCall,               \* the last createSensorEventConnection call, whether
                              \* it returned a connection, and the parity of the
                              \* number of calls made
    receiver,                 \* the ack receiver thread: its position in
                              \* threadLoop and the timeout it passes to pollOnce
    calls                     \* calls the last call made to the HAL, to the power
                              \* manager and to the connections' sendEvents, in order

vars == <<mSensors, usedHandles, mRecentEvent, mActiveSensors, mActiveVirtualSensors,
          mActiveConnections, mDirectConnections, mSensorInfo, mFirstFlushPending,
          mWakeLockRefCount, mWakeLockAcquired, mCurrentOperatingMode,
          mAllowListedPackage, mSensorPrivacyEnabled, mActiveUids, mActivated,
          mActivatedBackup, halClients, halPendingFlush, devEnabled, halMode,
          isUserBuild, halDynamic, mSensorEventBuffer,
          mMapFlushEventsToConnections, sent, ret, awaitingAck,
          awaitingFlushComplete, nextHandle, runtimeCall,
          sHmacGlobalKeyIsValid, hmacTable, idCall, mSensorFlags,
          halDynamicSensors, dynamic_sensor_hal_reconnect_handling,
          mDynamicMetaSensorHandle, reconnection, mLooperWake, heldWakeLocks,
          receiver, calls, mHtRestricted, accessCall, rateCall,
          createCall, halUidState, mOverrideUids, shellCall, directMem, directCall,
          mLastNSensorRegistrations, mNextSensorRegIndex, registrations, dumpOut,
          expandCall, mRuntimeSensorEventQueue, mRuntimeSensorHandler,
          runtimeThread, mRuntimeSensorEventBuffer, runtimeEnqueued,
          runtimeDequeued, runtimeHanded, mProximityActiveListeners,
          mLastReportedProxIsActive,
          curProxCallbackSeq,
          completedCallbackSeq,
          proxThreads,
          proxDelivered,
          proxCall,
          periodCall>>

idVars == <<sHmacGlobalKeyIsValid, hmacTable, idCall>>

\* state of the access policy and of the shell, which no call modelled by
\* CommitService touches
shellVars == <<mOverrideUids, shellCall>>

directVars == <<directMem, directCall>>

ringVars == <<mLastNSensorRegistrations, mNextSensorRegIndex, registrations, dumpOut>>

\* the injected event queue and the thread that drains it
runtimeQueueVars ==
    <<mRuntimeSensorEventQueue, runtimeThread, mRuntimeSensorEventBuffer,
      runtimeEnqueued, runtimeDequeued, runtimeHanded>>

\* the last call of each of the remaining operations
proxVars ==
    <<mProximityActiveListeners, mLastReportedProxIsActive, curProxCallbackSeq,
      completedCallbackSeq, proxThreads, proxDelivered, proxCall>>

tailVars == <<periodCall, proxVars>>

\* the state of tailVars that the operations on one part of it leave alone
exceptPeriod == <<proxVars>>
exceptProx == <<periodCall>>

lateVars == <<expandCall, mRuntimeSensorHandler, runtimeQueueVars, tailVars>>

policyVars ==
    <<mHtRestricted, accessCall, rateCall, createCall, shellVars, directVars,
      ringVars, lateVars>>

(***************************************************************************)
(* The part of the state that nested service calls read and write, passed  *)
(* through the operators below as one record.                              *)
(***************************************************************************)
St ==
    [mSensors |-> mSensors, usedHandles |-> usedHandles,
     mRecentEvent |-> mRecentEvent, mActiveSensors |-> mActiveSensors,
     mActiveVirtualSensors |-> mActiveVirtualSensors,
     mActiveConnections |-> mActiveConnections,
     mDirectConnections |-> mDirectConnections,
     mSensorInfo |-> mSensorInfo, mFirstFlushPending |-> mFirstFlushPending,
     mWakeLockRefCount |-> mWakeLockRefCount,
     mWakeLockAcquired |-> mWakeLockAcquired,
     mCurrentOperatingMode |-> mCurrentOperatingMode,
     mAllowListedPackage |-> mAllowListedPackage,
     mSensorPrivacyEnabled |-> mSensorPrivacyEnabled,
     mActiveUids |-> mActiveUids, mActivated |-> mActivated,
     mActivatedBackup |-> mActivatedBackup, halClients |-> halClients,
     halPendingFlush |-> halPendingFlush, devEnabled |-> devEnabled,
     halMode |-> halMode, sent |-> [c \in Conns |-> << >>],
     awaitingAck |-> awaitingAck,
     awaitingFlushComplete |-> awaitingFlushComplete, mSensorFlags |-> mSensorFlags,
     halDynamicSensors |-> halDynamicSensors, mLooperWake |-> mLooperWake,
     heldWakeLocks |-> heldWakeLocks,
     halUidState |-> halUidState, mOverrideUids |-> mOverrideUids,
     calls |-> << >>]

CommitState(st) ==
    /\ mSensors' = st.mSensors
    /\ usedHandles' = st.usedHandles
    /\ mRecentEvent' = st.mRecentEvent
    /\ mActiveSensors' = st.mActiveSensors
    /\ mActiveVirtualSensors' = st.mActiveVirtualSensors
    /\ mActiveConnections' = st.mActiveConnections
    /\ mDirectConnections' = st.mDirectConnections
    /\ mSensorInfo' = st.mSensorInfo
    /\ mFirstFlushPending' = st.mFirstFlushPending
    /\ mWakeLockRefCount' = st.mWakeLockRefCount
    /\ mWakeLockAcquired' = st.mWakeLockAcquired
    /\ mCurrentOperatingMode' = st.mCurrentOperatingMode
    /\ mAllowListedPackage' = st.mAllowListedPackage
    /\ mSensorPrivacyEnabled' = st.mSensorPrivacyEnabled
    /\ mActiveUids' = st.mActiveUids
    /\ mActivated' = st.mActivated
    /\ mActivatedBackup' = st.mActivatedBackup
    /\ halClients' = st.halClients
    /\ halPendingFlush' = st.halPendingFlush
    /\ devEnabled' = st.devEnabled
    /\ halMode' = st.halMode
    /\ sent' = st.sent
    /\ calls' = st.calls
    /\ mSensorFlags' = st.mSensorFlags
    /\ halDynamicSensors' = st.halDynamicSensors
    /\ mLooperWake' = st.mLooperWake
    /\ heldWakeLocks' = st.heldWakeLocks
    /\ halUidState' = st.halUidState
    /\ UNCHANGED <<dynamic_sensor_hal_reconnect_handling, mDynamicMetaSensorHandle>>
    /\ awaitingAck' = st.awaitingAck
    /\ awaitingFlushComplete' = st.awaitingFlushComplete
    /\ isUserBuild' = isUserBuild
    /\ halDynamic' = halDynamic
    /\ UNCHANGED idVars

CommitService(st) ==
    /\ CommitState(st)
    /\ UNCHANGED policyVars

Commit(st) ==
    /\ CommitService(st)
    /\ UNCHANGED <<receiver, nextHandle, runtimeCall, reconnection>>

Without(f, k) == [x \in (DOMAIN f) \ {k} |-> f[x]]
With(f, k, v) == [x \in (DOMAIN f) \cup {k} |-> IF x = k THEN v ELSE f[x]]

RECURSIVE SetToSeq(_)
SetToSeq(S) ==
    IF S = {} THEN << >>
    ELSE LET x == CHOOSE y \in S : TRUE IN <<x>> \o SetToSeq(S \ {x})

RECURSIVE FilterOut(_, _)
FilterOut(q, c) ==
    IF q = << >> THEN << >>
    ELSE (IF Head(q) = c THEN << >> ELSE <<Head(q)>>) \o FilterOut(Tail(q), c)

RECURSIVE CountIn(_, _)
CountIn(q, c) ==
    IF q = << >> THEN 0
    ELSE (IF Head(q) = c THEN 1 ELSE 0) + CountIn(Tail(q), c)

(***************************************************************************)
(* Events.  sensor is sensors_event_t.sensor (0 for META_DATA), handle is  *)
(* meta_data.sensor or dynamic_sensor_meta.handle.                         *)
(***************************************************************************)
DATA == "DATA"
META_DATA == "META_DATA"
DYNAMIC_SENSOR_META == "DYNAMIC_SENSOR_META"

DataEvent(h) ==
    [handle |-> h, type |-> DATA, sensor |-> h, connected |-> FALSE,
     flags |-> {}, replay |-> FALSE, fresh |-> TRUE]
FlushCompleteEvent(h) ==
    [handle |-> h, type |-> META_DATA, sensor |-> 0, connected |-> FALSE,
     flags |-> {}, replay |-> FALSE, fresh |-> TRUE]
\* flags: the flags of dynamic_sensor_meta.sensor, as the HAL filled them
DYNAMIC_SENSOR_MASK == "DYNAMIC_SENSOR_MASK"
DynamicSensorMeta(h, conn, flags) ==
    [handle |-> h, type |-> DYNAMIC_SENSOR_META, sensor |-> 0, connected |-> conn,
     flags |-> flags, replay |-> FALSE, fresh |-> TRUE]
DynamicMetaEvent(h, conn) ==
    [handle |-> h, type |-> DYNAMIC_SENSOR_META, sensor |-> 0, connected |-> conn,
     flags |-> {}, replay |-> FALSE, fresh |-> TRUE]

getSensorInterfaceFromHandle(st, h) == h \in st.mSensors

isWakeUpSensorEvent(st, e) ==
    LET handle == IF e.type = META_DATA THEN e.handle ELSE e.sensor
    IN getSensorInterfaceFromHandle(st, handle) /\ isWakeUpSensor(handle)

(***************************************************************************)
(* Wakelock.                                                               *)
(***************************************************************************)
\* one call out of the service: its name and its arguments
Call(op, handle, connected, conn) ==
    [handle |-> handle, connected |-> connected, conn |-> conn, op |-> op]

Logged(st, call) == [st EXCEPT !.calls = Append(@, call)]

acquire_wake_lock(st) ==
    [Logged(st, Call("acquire_wake_lock", 0, TRUE, NoConn)) EXCEPT
        !.heldWakeLocks = @ + 1]
release_wake_lock(st) ==
    [Logged(st, Call("release_wake_lock", 0, FALSE, NoConn)) EXCEPT
        !.heldWakeLocks = @ - 1]

\* Variant: the looper is not woken.
LooperWake_none(st) == st

\* mLooper->wake()
LooperWake(st) == [st EXCEPT !.mLooperWake = TRUE]

setWakeLockAcquiredLocked(st, acquire) ==
    IF acquire
    THEN LooperWake(IF ~st.mWakeLockAcquired
                    THEN [acquire_wake_lock(st) EXCEPT !.mWakeLockAcquired = TRUE]
                    ELSE st)
    ELSE IF st.mWakeLockAcquired
         THEN [release_wake_lock(st) EXCEPT !.mWakeLockAcquired = FALSE]
         ELSE st

needsWakeLock(st, c) == st.mWakeLockRefCount[c] > 0

checkWakeLockStateLocked(st) ==
    IF ~st.mWakeLockAcquired THEN st
    ELSE IF \E c \in st.mActiveConnections : needsWakeLock(st, c) THEN st
    ELSE setWakeLockAcquiredLocked(st, FALSE)

(***************************************************************************)
(* SensorRecord: the connections that own a sensor and the FIFO of         *)
(* connections waiting for a flush-complete event.                         *)
(***************************************************************************)
NewSensorRecord(c) == [mConnections |-> {c}, mPendingFlushConnections |-> << >>]

addConnection(rec, c) == [rec EXCEPT !.mConnections = @ \cup {c}]

removeConnection(rec, c) ==
    [mConnections |-> rec.mConnections \ {c},
     mPendingFlushConnections |-> FilterOut(rec.mPendingFlushConnections, c)]

addPendingFlushConnection(rec, c) ==
    [rec EXCEPT !.mPendingFlushConnections = Append(@, c)]

getFirstPendingFlushConnection(rec) ==
    IF rec.mPendingFlushConnections = << >> THEN NoConn
    ELSE Head(rec.mPendingFlushConnections)

removeFirstPendingFlushConnection(rec) ==
    IF rec.mPendingFlushConnections = << >> THEN rec
    ELSE [rec EXCEPT !.mPendingFlushConnections = Tail(@)]

(***************************************************************************)
(* RecentEventLogger: last value with a staleness flag.  thisActivation    *)
(* records, for an on-change sensor, whether the value was logged since    *)
(* the sensor's record was last destroyed.                                 *)
(***************************************************************************)
NewLogger == [hasEvent |-> FALSE, current |-> FALSE, thisActivation |-> FALSE]
addEvent(lg) == [hasEvent |-> TRUE, current |-> TRUE, thisActivation |-> TRUE]
setLastEventStale(lg) == [lg EXCEPT !.current = FALSE]
populateLastEventIfCurrent(lg) == lg.hasEvent /\ lg.current
LastEvent(lg, h) ==
    [handle |-> h, type |-> DATA, sensor |-> h, connected |-> FALSE,
     flags |-> {}, replay |-> TRUE, fresh |-> lg.thisActivation]

(***************************************************************************)
(* SensorEventConnection bookkeeping.                                      *)
(***************************************************************************)
hasSensor(st, c, h) == h \in st.mSensorInfo[c]
hasAnySensor(st, c) == st.mSensorInfo[c] # {}
hasOneShotSensors(st, c) ==
    \E h \in st.mSensorInfo[c] :
        getSensorInterfaceFromHandle(st, h) /\ getReportingMode(h) = ONE_SHOT

addSensor(st, c, h) ==
    [st EXCEPT !.mSensorInfo[c] = @ \cup {h}]

removeSensor(st, c, h) ==
    [st EXCEPT !.mSensorInfo[c] = @ \ {h},
               !.mFirstFlushPending[c] = @ \ {h},
               !.awaitingFlushComplete = IF h = ACCEL THEN @ \ {c} ELSE @]

(***************************************************************************)
(* SensorService::cleanupWithoutDisableLocked.                             *)
(***************************************************************************)
removeRecord(st, h) ==
    [st EXCEPT !.mActiveSensors = Without(@, h),
               !.mActiveVirtualSensors = @ \ {h},
               !.mRecentEvent =
                   IF h \in DOMAIN @ /\ getReportingMode(h) = ON_CHANGE
                   THEN [@ EXCEPT ![h].thisActivation = FALSE] ELSE @]

removeEventConnection(st, c) ==
    [st EXCEPT !.mActiveConnections = @ \ {c}]

addEventConnectionIfNotPresent(st, c) ==
    [st EXCEPT !.mActiveConnections = @ \cup {c}]

cleanupWithoutDisableLocked(st, c, h) ==
    IF h \in DOMAIN st.mActiveSensors
    THEN LET s1 == removeSensor(st, c, h)
             s2 == IF ~hasAnySensor(s1, c) THEN removeEventConnection(s1, c) ELSE s1
             rec == removeConnection(s2.mActiveSensors[h], c)
             s3 == IF rec.mConnections = {}
                   THEN removeRecord(s2, h)
                   ELSE [s2 EXCEPT !.mActiveSensors[h] = rec]
         IN [st |-> s3, err |-> NO_ERROR]
    ELSE [st |-> st, err |-> BAD_VALUE]

(***************************************************************************)
(* SensorEventConnection::sendEvents.  With a scratch buffer the batch is  *)
(* filtered by the connection's subscriptions and first-flush gate; with a *)
(* null scratch buffer every event is written.  Every written wake-up      *)
(* event charges the connection's wake-lock refcount.                      *)
(***************************************************************************)
MetaGoesTo(map, i, c) == map[i] = c

Accepts(st, c, e, map, i, scratch) ==
    LET sensor_handle == IF e.type = META_DATA THEN e.handle ELSE e.sensor IN
    IF ~scratch THEN TRUE
    ELSE /\ sensor_handle \in st.mSensorInfo[c]
         /\ sensor_handle \notin st.mFirstFlushPending[c]
         /\ (e.type = META_DATA => MetaGoesTo(map, i, c))

ClearsFirstFlush(st, c, e, map, i, scratch) ==
    /\ scratch
    /\ e.type = META_DATA
    /\ e.handle \in st.mSensorInfo[c]
    /\ e.handle \in st.mFirstFlushPending[c]
    /\ map[i] = c

WriteEvent(st, c, e, i) ==
    LET wake == isWakeUpSensorEvent(st, e)
        h == IF e.type = DATA THEN e.sensor ELSE e.handle
    IN [st EXCEPT
          !.sent[c] = Append(@, [type |-> e.type, sensor |-> h, replay |-> e.replay,
                                 fresh |-> e.fresh, idx |-> i]),
          !.mWakeLockRefCount[c] = IF wake THEN @ + 1 ELSE @,
          !.awaitingAck = IF wake THEN @ \cup {c} ELSE @,
          !.awaitingFlushComplete =
              IF e.type = META_DATA /\ e.handle = ACCEL THEN @ \ {c} ELSE @]

RECURSIVE sendEventsFrom(_, _, _, _, _, _)
sendEventsFrom(st, c, buffer, map, scratch, i) ==
    IF i > Len(buffer) THEN st
    ELSE LET e == buffer[i]
             s1 == IF ClearsFirstFlush(st, c, e, map, i, scratch)
                   THEN [st EXCEPT !.mFirstFlushPending[c] = @ \ {e.handle}]
                   ELSE IF Accepts(st, c, e, map, i, scratch)
                   THEN WriteEvent(st, c, e, i)
                   ELSE st
         IN sendEventsFrom(s1, c, buffer, map, scratch, i + 1)

sendEvents(st, c, buffer, map, scratch) ==
    sendEventsFrom(Logged(st, Call("sendEvents", 0, FALSE, c)),
                   c, buffer, map, scratch, 1)

(***************************************************************************)
(* SensorService::cleanupAutoDisabledSensorLocked.                         *)
(***************************************************************************)
autoDisable(st, c, h) == [st EXCEPT !.halClients[h] = @ \ {c}]

RECURSIVE cleanupAutoDisabledFrom(_, _, _, _)
cleanupAutoDisabledFrom(st, c, buffer, i) ==
    IF i > Len(buffer) THEN st
    ELSE LET e == buffer[i]
             handle == IF e.type = META_DATA THEN e.handle ELSE e.sensor
             s1 == IF /\ hasSensor(st, c, handle)
                      /\ getSensorInterfaceFromHandle(st, handle)
                      /\ getReportingMode(handle) = ONE_SHOT
                   THEN cleanupWithoutDisableLocked(autoDisable(st, c, handle),
                                                    c, handle).st
                   ELSE st
         IN cleanupAutoDisabledFrom(s1, c, buffer, i + 1)

\* Variant: the one-shot cleanup after sendEvents is skipped.
cleanupAutoDisabledSensorLocked_skipped(st, c, buffer) == st

cleanupAutoDisabledSensorLocked(st, c, buffer) ==
    cleanupAutoDisabledFrom(st, c, buffer, 1)

(***************************************************************************)
(* SensorService::sendEventsToAllClients.  acc carries needsWakeLock.      *)
(***************************************************************************)
RECURSIVE sendToEach(_, _, _, _, _)
sendToEach(st, conns, buffer, map, acc) ==
    IF conns = << >> THEN [st |-> st, needsWakeLock |-> acc]
    ELSE LET c == Head(conns)
             s1 == sendEvents(st, c, buffer, map, TRUE)
             n == acc \/ needsWakeLock(s1, c)
             s2 == IF hasOneShotSensors(s1, c)
                   THEN cleanupAutoDisabledSensorLocked(s1, c, buffer)
                   ELSE s1
         IN sendToEach(s2, Tail(conns), buffer, map, n)

\* Variant: the wakelock is released whatever the connections report.
sendEventsToAllClients_releaseAlways(st, activeConnections, buffer, map) ==
    setWakeLockAcquiredLocked(sendToEach(st, activeConnections, buffer, map, FALSE).st,
                              FALSE)

sendEventsToAllClients(st, activeConnections, buffer, map) ==
    LET r == sendToEach(st, activeConnections, buffer, map, FALSE)
    IN IF r.st.mWakeLockAcquired /\ ~r.needsWakeLock
       THEN setWakeLockAcquiredLocked(r.st, FALSE)
       ELSE r.st

(***************************************************************************)
(* SensorService::recordLastValueLocked.                                   *)
(***************************************************************************)
RECURSIVE recordLastValueFrom(_, _, _)
recordLastValueFrom(st, buffer, i) ==
    IF i > Len(buffer) THEN st
    ELSE LET e == buffer[i]
             s1 == IF e.type = DATA /\ e.sensor \in DOMAIN st.mRecentEvent
                   THEN [st EXCEPT !.mRecentEvent[e.sensor] = addEvent(@)]
                   ELSE st
         IN recordLastValueFrom(s1, buffer, i + 1)

recordLastValueLocked(st, buffer) == recordLastValueFrom(st, buffer, 1)

(***************************************************************************)
(* Dynamic sensors: registerDynamicSensorLocked,                           *)
(* unregisterDynamicSensorLocked, disconnectDynamicSensor.                 *)
(***************************************************************************)
isNewHandle(st, h) == h \notin st.usedHandles

\* SensorList::add succeeds for a handle never used before
SensorListAdd(st, h) == isNewHandle(st, h)

\* Variant: the sensor is registered whatever SensorList::add returns.
registerSensor_unchecked(st, h) ==
    [st EXCEPT !.mSensors = @ \cup {h},
               !.usedHandles = @ \cup {h},
               !.mRecentEvent = With(@, h, NewLogger)]

registerSensor(st, h) ==
    IF SensorListAdd(st, h)
    THEN [st EXCEPT !.mSensors = @ \cup {h},
                    !.usedHandles = @ \cup {h},
                    !.mRecentEvent = With(@, h, NewLogger)]
    ELSE st

\* the dynamic-sensor branch of threadLoop up to registerDynamicSensorLocked:
\* the sensor_t of the event with the dynamic flag forced
registerDynamicSensorLocked(st, h, flags) ==
    LET s1 == registerSensor(st, h)
    IN IF h \in s1.mSensors \ st.mSensors
       THEN [s1 EXCEPT !.mSensorFlags = With(@, h, flags \cup {DYNAMIC_SENSOR_MASK})]
       ELSE s1

\* Variant: the recent-event logger of the sensor is kept.
unregisterDynamicSensorLocked_keepLogger(st, h) ==
    [st EXCEPT !.mSensors = @ \ {h},
               !.mSensorFlags = Without(@, h)]

unregisterDynamicSensorLocked(st, h) ==
    [st EXCEPT !.mSensors = @ \ {h},
               !.mSensorFlags = Without(@, h),
               !.mRecentEvent = Without(@, h)]

RECURSIVE removeSensorFromEach(_, _, _)
removeSensorFromEach(st, conns, h) ==
    IF conns = << >> THEN st
    ELSE removeSensorFromEach(removeSensor(st, Head(conns), h), Tail(conns), h)

handleDynamicSensorConnection(st, h, connected) ==
    LET s1 == Logged(st, Call("handleDynamicSensorConnection", h, connected, NoConn))
    IN IF connected THEN [s1 EXCEPT !.halDynamicSensors = @ \cup {h}]
       ELSE [s1 EXCEPT !.halClients[h] = {}, !.halPendingFlush[h] = 0,
                       !.halDynamicSensors = @ \ {h}]

disconnectDynamicSensor(st, handle, activeConnections) ==
    removeSensorFromEach(
        unregisterDynamicSensorLocked(
            handleDynamicSensorConnection(st, handle, FALSE), handle),
        activeConnections, handle)

(***************************************************************************)
(* SensorDevice (HAL adapter): activate, flush.                            *)
(***************************************************************************)
halActivate(st, c, h, enabled) ==
    [st EXCEPT !.halClients[h] = IF enabled THEN @ \cup {c} ELSE @ \ {c}]

halFlush(st, h) == [st EXCEPT !.halPendingFlush[h] = @ + 1]

(***************************************************************************)
(* SensorService::enable, after the init, access and mode checks.          *)
(***************************************************************************)
isAllowListedPackage(allow, packageName) == contains(packageName, allow)

\* Variant: the mode gate lets every package through.
EnableRejectedByMode_open(mode, allow, c) == FALSE

EnableRejectedByMode(mode, allow, c) ==
    /\ mode # NORMAL
    /\ ~isInjectionMode(mode)
    /\ ~isAllowListedPackage(allow, getPackageName(c))

\* Variant: a new record does not mark the logged value stale.
MarkStaleOnCreate_kept(st, h) == st

MarkStaleOnCreate(st, h) ==
    IF getReportingMode(h) = ON_CHANGE /\ h \in DOMAIN st.mRecentEvent
    THEN [st EXCEPT !.mRecentEvent[h] = setLastEventStale(@)]
    ELSE st

\* Variant: the replay ignores whether the connection was newly added.
ShouldReplay_always(st, h, added) ==
    /\ getReportingMode(h) = ON_CHANGE
    /\ h \in DOMAIN st.mRecentEvent
    /\ st.mRecentEvent[h].hasEvent /\ st.mRecentEvent[h].current

ShouldReplay(st, h, added) ==
    /\ added
    /\ getReportingMode(h) = ON_CHANGE
    /\ h \in DOMAIN st.mRecentEvent
    /\ populateLastEventIfCurrent(st.mRecentEvent[h])

replayLastEvent(st, c, h) ==
    LET event == LastEvent(st.mRecentEvent[h], h)
        s1 == IF isWakeUpSensorEvent(st, event) /\ ~st.mWakeLockAcquired
              THEN setWakeLockAcquiredLocked(st, TRUE) ELSE st
        s2 == sendEvents(s1, c, <<event>>, <<NoConn>>, FALSE)
    IN IF ~needsWakeLock(s2, c) /\ s2.mWakeLockAcquired
       THEN checkWakeLockStateLocked(s2) ELSE s2

enableRecord(st, c, h) ==
    IF h \notin DOMAIN st.mActiveSensors
    THEN MarkStaleOnCreate(
             [st EXCEPT !.mActiveSensors = With(@, h, NewSensorRecord(c)),
                        !.mActiveVirtualSensors =
                            IF isVirtual(h) THEN @ \cup {h} ELSE @], h)
    ELSE LET added == c \notin st.mActiveSensors[h].mConnections
             s1 == [st EXCEPT !.mActiveSensors[h] = addConnection(@, c)]
         IN IF ShouldReplay(s1, h, added) THEN replayLastEvent(s1, c, h) ELSE s1

enableSubscribe(st, c, h) ==
    IF ~hasSensor(st, c, h)
    THEN addEventConnectionIfNotPresent(addSensor(st, c, h), c)
    ELSE st

enableFirstFlush(st, c, h, err, flushOk) ==
    IF /\ err = NO_ERROR
       /\ getReportingMode(h) = CONTINUOUS
       /\ Cardinality(st.mActiveSensors[h].mConnections) > 1
    THEN IF flushOk
         THEN [halFlush(st, h) EXCEPT
                  !.mFirstFlushPending[c] = @ \cup {h},
                  !.mActiveSensors[h] = addPendingFlushConnection(@, c)]
         ELSE [st EXCEPT !.mFirstFlushPending[c] = @ \ {h}]
    ELSE st

\* Variant: a failed batch or activate leaves the subscription in place.
enableLocked_noUnwind(st, c, h, batchOk, flushOk, activateOk) ==
    LET s1 == enableRecord(st, c, h)
        s2 == enableSubscribe(s1, c, h)
        err1 == IF batchOk THEN NO_ERROR ELSE HAL_ERROR
        s3 == enableFirstFlush(s2, c, h, err1, flushOk)
        err2 == IF err1 = NO_ERROR
                THEN (IF activateOk THEN NO_ERROR ELSE HAL_ERROR)
                ELSE err1
        s4 == IF err1 = NO_ERROR /\ activateOk
              THEN halActivate(s3, c, h, TRUE) ELSE s3
    IN [st |-> s4, err |-> err2]

enableLocked(st, c, h, batchOk, flushOk, activateOk) ==
    LET s1 == enableRecord(st, c, h)
        s2 == enableSubscribe(s1, c, h)
        err1 == IF batchOk THEN NO_ERROR ELSE HAL_ERROR
        s3 == enableFirstFlush(s2, c, h, err1, flushOk)
        err2 == IF err1 = NO_ERROR
                THEN (IF activateOk THEN NO_ERROR ELSE HAL_ERROR)
                ELSE err1
        s4 == IF err1 = NO_ERROR /\ activateOk
              THEN halActivate(s3, c, h, TRUE) ELSE s3
        s5 == IF err2 # NO_ERROR
              THEN cleanupWithoutDisableLocked(s4, c, h).st ELSE s4
    IN [st |-> s5, err |-> err2]

(***************************************************************************)
(* SensorService::disable.                                                 *)
(***************************************************************************)
disableLocked(st, c, h) ==
    LET r == cleanupWithoutDisableLocked(st, c, h)
    IN IF r.err = NO_ERROR
       THEN IF getSensorInterfaceFromHandle(r.st, h)
            THEN [st |-> halActivate(r.st, c, h, FALSE), err |-> NO_ERROR]
            ELSE [st |-> r.st, err |-> BAD_VALUE]
       ELSE r

(***************************************************************************)
(* SensorService::flushSensor.  okHandles: the handles whose HAL flush     *)
(* succeeds.                                                               *)
(***************************************************************************)
flushOne(st, c, h, err, okHandles) ==
    IF ~getSensorInterfaceFromHandle(st, h) THEN [st |-> st, err |-> err]
    ELSE IF getReportingMode(h) = ONE_SHOT
    THEN [st |-> st, err |-> INVALID_OPERATION]
    ELSE IF h \in okHandles
    THEN LET s1 == halFlush(st, h)
             s2 == IF h \in DOMAIN s1.mActiveSensors
                   THEN [s1 EXCEPT !.mActiveSensors[h] = addPendingFlushConnection(@, c)]
                   ELSE s1
         IN [st |-> [s2 EXCEPT !.awaitingFlushComplete = IF h = ACCEL THEN @ \cup {c} ELSE @],
             err |-> err]
    ELSE [st |-> st, err |-> HAL_ERROR]

RECURSIVE flushEach(_, _, _, _, _)
flushEach(st, c, handles, err, okHandles) ==
    IF handles = << >> THEN [st |-> st, err |-> err]
    ELSE LET r == flushOne(st, c, Head(handles), err, okHandles)
         IN flushEach(r.st, c, Tail(handles), r.err, okHandles)

flushSensor(st, c, okHandles) ==
    flushEach(st, c, SetToSeq(st.mSensorInfo[c]), NO_ERROR, okHandles)

(***************************************************************************)
(* SensorService::threadLoop, one iteration after poll returned buffer.    *)
(***************************************************************************)
\* Variant: the head of the pending-flush FIFO is read but not removed.
mapFlushEvent_kept(st, e) ==
    IF e.type = META_DATA /\ e.handle \in DOMAIN st.mActiveSensors
    THEN [st |-> st,
          m |-> getFirstPendingFlushConnection(st.mActiveSensors[e.handle])]
    ELSE [st |-> st, m |-> NoConn]

\* the connection a flush-complete event is mapped to, and the record popped
mapFlushEvent(st, e) ==
    IF e.type = META_DATA /\ e.handle \in DOMAIN st.mActiveSensors
    THEN [st |-> [st EXCEPT !.mActiveSensors[e.handle] =
                                removeFirstPendingFlushConnection(@)],
          m |-> getFirstPendingFlushConnection(st.mActiveSensors[e.handle])]
    ELSE [st |-> st, m |-> NoConn]

RECURSIVE mapFlushFrom(_, _, _, _, _)
mapFlushFrom(st, buffer, activeConnections, i, map) ==
    IF i > Len(buffer) THEN [st |-> st, map |-> map]
    ELSE LET e == buffer[i]
             r == mapFlushEvent(st, e)
             m == r.m
             s1 == r.st
             s2 == IF e.type = DYNAMIC_SENSOR_META
                   THEN IF e.connected
                        THEN IF isNewHandle(s1, e.handle)
                             THEN registerDynamicSensorLocked(
                                      handleDynamicSensorConnection(s1, e.handle, TRUE),
                                      e.handle, e.flags)
                             ELSE s1
                        ELSE disconnectDynamicSensor(s1, e.handle, activeConnections)
                   ELSE s1
         IN mapFlushFrom(s2, buffer, activeConnections, i + 1, Append(map, m))

threadLoopIteration(st, buffer) ==
    LET wakeEvents == {i \in 1..Len(buffer) : isWakeUpSensorEvent(st, buffer[i])}
        s1 == IF wakeEvents # {} /\ ~st.mWakeLockAcquired
              THEN setWakeLockAcquiredLocked(st, TRUE) ELSE st
        s2 == recordLastValueLocked(s1, buffer)
        activeConnections == SetToSeq(s2.mActiveConnections)
        r == mapFlushFrom(s2, buffer, activeConnections, 1, << >>)
    IN [st |-> sendEventsToAllClients(r.st, activeConnections, buffer, r.map),
        map |-> r.map]

(***************************************************************************)
(* SensorService::cleanupConnection for an event connection.  The          *)
(* connection object dies with the call: a later connection of the same    *)
(* name starts with a zero refcount.                                       *)
(***************************************************************************)
RECURSIVE cleanupEach(_, _, _)
cleanupEach(st, c, handles) ==
    IF handles = << >> THEN st
    ELSE LET h == Head(handles)
             s1 == IF hasSensor(st, c, h)
                   THEN removeSensor(
                            IF getSensorInterfaceFromHandle(st, h)
                            THEN halActivate(st, c, h, FALSE) ELSE st, c, h)
                   ELSE st
             rec == removeConnection(s1.mActiveSensors[h], c)
             s2 == IF rec.mConnections = {}
                   THEN removeRecord(s1, h)
                   ELSE [s1 EXCEPT !.mActiveSensors[h] = rec]
         IN cleanupEach(s2, c, Tail(handles))

\* Variant: the connection stays in the holder.
cleanupConnection_keepHolder(st, c) ==
    LET s1 == cleanupEach(st, c, SetToSeq(DOMAIN st.mActiveSensors))
        s3 == IF needsWakeLock(s1, c) THEN checkWakeLockStateLocked(s1) ELSE s1
    IN [s3 EXCEPT !.mWakeLockRefCount[c] = 0,
                  !.mFirstFlushPending[c] = {},
                  !.awaitingAck = @ \ {c}]

cleanupConnection(st, c) ==
    LET s1 == cleanupEach(st, c, SetToSeq(DOMAIN st.mActiveSensors))
        s2 == removeEventConnection(s1, c)
        s3 == IF needsWakeLock(s2, c) THEN checkWakeLockStateLocked(s2) ELSE s2
    IN [s3 EXCEPT !.mWakeLockRefCount[c] = 0,
                  !.mFirstFlushPending[c] = {},
                  !.awaitingAck = @ \ {c}]

(***************************************************************************)
(* Wake-up acknowledgement (SensorEventConnection::handleEvent) and the    *)
(* ack receiver's timeout (SensorService::resetAllWakeLockRefCounts).      *)
(***************************************************************************)
ackWakeUpEvent(st, c) ==
    LET s1 == [st EXCEPT !.mWakeLockRefCount[c] = @ - 1,
                         !.awaitingAck = IF st.mWakeLockRefCount[c] = 1
                                         THEN @ \ {c} ELSE @]
    IN IF ~needsWakeLock(s1, c) THEN checkWakeLockStateLocked(s1) ELSE s1

resetAllWakeLockRefCounts(st) ==
    setWakeLockAcquiredLocked(
        [st EXCEPT !.mWakeLockRefCount =
                       [c \in Conns |-> IF c \in st.mActiveConnections THEN 0 ELSE @[c]],
                   !.awaitingAck = {}],
        FALSE)

(***************************************************************************)
(* Access policy for direct connections: SensorService::                   *)
(* hasSensorAccessLocked, isOperationRestrictedLocked, UidPolicy.          *)
(***************************************************************************)
\* the uid of the package that owns direct connection d, for user 0
uidOf(d) == <<0, d>>

isUidActiveLocked(overrides, activeUids, uid) ==
    IF uid \in DOMAIN overrides THEN overrides[uid]
    ELSE uid[1] = 0 /\ uid[2] \in activeUids

isUidActive(st, d) == isUidActiveLocked(st.mOverrideUids, st.mActiveUids, uidOf(d))

isOperationRestrictedLocked(st, opPackageName) ==
    IF st.mCurrentOperatingMode = RESTRICTED
    THEN ~isAllowListedPackage(st.mAllowListedPackage, opPackageName)
    ELSE FALSE

hasSensorAccessLocked(st, d) ==
    /\ ~st.mSensorPrivacyEnabled
    /\ isUidActive(st, d)
    /\ ~isOperationRestrictedLocked(st, getPackageName(d))

(***************************************************************************)
(* SensorDirectConnection::onSensorAccessChanged: stopAll(backup) when     *)
(* access is lost, recoverAll when it is regained.                         *)
(***************************************************************************)
stopAll(st, d) ==
    [st EXCEPT !.mActivatedBackup[d] = IF @ = 0 THEN st.mActivated[d] ELSE @,
               !.mActivated[d] = 0]

recoverAll(st, d) ==
    IF st.mActivatedBackup[d] # 0
    THEN [st EXCEPT !.mActivated[d] = st.mActivatedBackup[d],
                    !.mActivatedBackup[d] = 0]
    ELSE st

onSensorAccessChanged(st, d, hasAccess) ==
    IF hasAccess THEN recoverAll(st, d) ELSE stopAll(st, d)

RECURSIVE notifyDirectConnections(_, _)
notifyDirectConnections(st, ds) ==
    IF ds = << >> THEN st
    ELSE notifyDirectConnections(
             onSensorAccessChanged(st, Head(ds), hasSensorAccessLocked(st, Head(ds))),
             Tail(ds))

(***************************************************************************)
(* SensorService::disableAllSensorsLocked / enableAllSensorsLocked.        *)
(***************************************************************************)
clearAllPendingFlushConnections(st) ==
    [st EXCEPT !.mActiveSensors =
        [h \in DOMAIN @ |-> [@[h] EXCEPT !.mPendingFlushConnections = << >>]]]

devDisableAllSensors(st) == [st EXCEPT !.devEnabled = FALSE]
devEnableAllSensors(st) == [st EXCEPT !.devEnabled = TRUE]

disableAllSensorsLocked(st) ==
    clearAllPendingFlushConnections(
        devDisableAllSensors(
            notifyDirectConnections(st, SetToSeq(st.mDirectConnections))))

enableAllSensorsLocked(st) ==
    IF st.mCurrentOperatingMode = RESTRICTED \/ st.mSensorPrivacyEnabled
    THEN st
    ELSE notifyDirectConnections(devEnableAllSensors(st),
                                 SetToSeq(st.mDirectConnections))

(***************************************************************************)
(* SensorService::resetToNormalModeLocked and changeOperatingMode.         *)
(* hasArgs: args.size() >= 2; arg: args[1]; setModeOk: result of the HAL   *)
(* set_mode call, when one is made.                                        *)
(***************************************************************************)
resetToNormalModeLocked(st, setModeOk) ==
    IF setModeOk
    THEN devEnableAllSensors([st EXCEPT !.halMode = NORMAL,
                                        !.mCurrentOperatingMode = NORMAL])
    ELSE st

changeToNormal(st, setModeOk) ==
    LET s1 == IF st.mCurrentOperatingMode = RESTRICTED
              THEN enableAllSensorsLocked([st EXCEPT !.mCurrentOperatingMode = NORMAL])
              ELSE st
        s2 == IF s1.mCurrentOperatingMode = REPLAY_DATA_INJECTION
              THEN devDisableAllSensors(s1) ELSE s1
        s3 == IF isInjectionMode(s2.mCurrentOperatingMode)
              THEN resetToNormalModeLocked(s2, setModeOk) ELSE s2
    IN [st |-> [s3 EXCEPT !.mAllowListedPackage = PkgEmpty], err |-> NO_ERROR]

\* Variant: Restricted mode may be entered from any mode.
RestrictedAllowedFrom_any(mode) == TRUE

RestrictedAllowedFrom(mode) == mode = NORMAL

changeToRestricted(st, arg) ==
    IF ~RestrictedAllowedFrom(st.mCurrentOperatingMode)
    THEN [st |-> st, err |-> INVALID_OPERATION]
    ELSE [st |-> [disableAllSensorsLocked([st EXCEPT !.mCurrentOperatingMode = RESTRICTED])
                     EXCEPT !.mAllowListedPackage = arg],
          err |-> NO_ERROR]

InjectionAllowedFrom(mode) == mode = NORMAL

\* Variant: the sensors are enabled again only for replay injection.
ReenableAfterSetMode_replayOnly(setModeOk, target) ==
    target = REPLAY_DATA_INJECTION

ReenableAfterSetMode(setModeOk, target) ==
    ~setModeOk \/ target = REPLAY_DATA_INJECTION

\* Variant: replay injection is not refused on user builds.
RejectedOnUserBuild_never(target, userBuild) == FALSE

RejectedOnUserBuild(target, userBuild) ==
    target # DATA_INJECTION /\ userBuild

changeToInjection(st, target, arg, setModeOk, userBuild) ==
    IF RejectedOnUserBuild(target, userBuild)
    THEN [st |-> st, err |-> INVALID_OPERATION]
    ELSE IF InjectionAllowedFrom(st.mCurrentOperatingMode)
    THEN LET s1 == devDisableAllSensors(st)
             s2 == IF setModeOk
                   THEN [s1 EXCEPT !.halMode = IF target = HAL_BYPASS_REPLAY_DATA_INJECTION
                                               THEN target ELSE DATA_INJECTION,
                                   !.mCurrentOperatingMode = target]
                   ELSE s1
             s3 == IF ReenableAfterSetMode(setModeOk, target)
                   THEN devEnableAllSensors(s2) ELSE s2
         IN [st |-> [s3 EXCEPT !.mAllowListedPackage = arg], err |-> NO_ERROR]
    ELSE [st |-> st, err |-> INVALID_OPERATION]

changeOperatingMode(st, target, hasArgs, arg, setModeOk, userBuild) ==
    IF st.mCurrentOperatingMode = target THEN [st |-> st, err |-> NO_ERROR]
    ELSE IF target # NORMAL /\ ~hasArgs THEN [st |-> st, err |-> INVALID_OPERATION]
    ELSE IF target = NORMAL THEN changeToNormal(st, setModeOk)
    ELSE IF target = RESTRICTED THEN changeToRestricted(st, arg)
    ELSE changeToInjection(st, target, arg, setModeOk, userBuild)

(***************************************************************************)
(* SensorPrivacyPolicy::onSensorPrivacyChanged and                         *)
(* SensorService::onUidStateChanged (direct connections).                  *)
(***************************************************************************)
onSensorPrivacyChanged(st, enabled) ==
    LET s1 == [st EXCEPT !.mSensorPrivacyEnabled = enabled]
    IN IF enabled THEN disableAllSensorsLocked(s1) ELSE enableAllSensorsLocked(s1)

\* SensorEventConnection::getUid: the application a connection belongs to
getUid(c) == IF c = "A" THEN "D1" ELSE "D2"

\* the loop over the active event connections: the state is given to the
\* device for every one of the UID
setUidStateForConnections(st, d, state) ==
    [st EXCEPT !.halUidState =
        [c \in Conns |-> IF c \in st.mActiveConnections /\ getUid(c) = d
                         THEN state ELSE @[c]]]

onUidStateChanged(st, d, state) ==
    LET s1 == setUidStateForConnections(st, d, state)
    IN IF d \in s1.mDirectConnections
       THEN onSensorAccessChanged(s1, d, hasSensorAccessLocked(s1, d))
       ELSE s1

onUidActive(st, d) ==
    onUidStateChanged([st EXCEPT !.mActiveUids = @ \cup {d}], d, UID_STATE_ACTIVE)

onUidIdle(st, d) ==
    IF d \in st.mActiveUids
    THEN onUidStateChanged([st EXCEPT !.mActiveUids = @ \ {d}], d, UID_STATE_IDLE)
    ELSE st

(***************************************************************************)
(* Actions.  Each is one call made under mLock.                            *)
(***************************************************************************)
\* SensorService::enable(connection, handle, ...)
Enable(c, h, access, batchOk, flushOk, activateOk) ==
    /\ mWakeLockRefCount[c] < MaxRefCount
    /\ \A x \in Handles : halPendingFlush[x] < MaxFlush
    /\ mMapFlushEventsToConnections' = << >>
    /\ mSensorEventBuffer' = << >>
    /\ IF ~getSensorInterfaceFromHandle(St, h) \/ ~access
       THEN /\ ret' = BAD_VALUE
            /\ Commit(St)
       ELSE IF EnableRejectedByMode(mCurrentOperatingMode, mAllowListedPackage, c)
       THEN /\ ret' = INVALID_OPERATION
            /\ Commit(St)
       ELSE LET r == enableLocked(St, c, h, batchOk, flushOk, activateOk)
            IN /\ ret' = r.err
               /\ Commit(r.st)

\* SensorService::disable(connection, handle)
Disable(c, h) ==
    LET r == disableLocked(St, c, h)
    IN /\ mMapFlushEventsToConnections' = << >>
       /\ mSensorEventBuffer' = << >>
       /\ ret' = r.err
       /\ Commit(r.st)

\* SensorService::flushSensor(connection)
Flush(c, okHandles) ==
    /\ \A x \in Handles : halPendingFlush[x] < MaxFlush
    /\ LET r == flushSensor(St, c, okHandles)
       IN /\ mMapFlushEventsToConnections' = << >>
          /\ mSensorEventBuffer' = << >>
          /\ ret' = r.err
          /\ Commit(r.st)

\* Events the HAL may return from poll in the current state.
PollableEvents ==
    {DataEvent(h) : h \in {x \in mSensors :
                              getReportingMode(x) = ONE_SHOT => halClients[x] # {}}}
    \cup {FlushCompleteEvent(h) : h \in {x \in Handles : halPendingFlush[x] > 0}}
    \cup (IF halDynamic
          THEN {DynamicMetaEvent(DYNSENSOR, b) : b \in BOOLEAN} ELSE {})

CountEvents(buffer, e) == Cardinality({i \in 1..Len(buffer) : buffer[i] = e})

PollableBatches ==
    {b \in UNION {[1..n -> PollableEvents] : n \in 1..MaxBatch} :
        /\ \A h \in Handles :
              CountEvents(b, FlushCompleteEvent(h)) <= halPendingFlush[h]
        /\ \A h \in Handles :
              getReportingMode(h) = ONE_SHOT => CountEvents(b, DataEvent(h)) <= 1}

pollFlushes(st, buffer) ==
    [st EXCEPT !.halPendingFlush =
        [h \in Handles |-> @[h] - CountEvents(buffer, FlushCompleteEvent(h))]]

\* SensorService::threadLoop, one iteration
Dispatch(buffer) ==
    /\ reconnection.pc = "polling"
    /\ \A c \in Conns : mWakeLockRefCount[c] + Len(buffer) <= MaxRefCount
    /\ LET r == threadLoopIteration(pollFlushes(St, buffer), buffer)
       IN /\ mSensorEventBuffer' = buffer
          /\ mMapFlushEventsToConnections' = r.map
          /\ ret' = NO_ERROR
          /\ Commit(r.st)

\* the client acknowledges one wake-up event
Ack(c) ==
    /\ mWakeLockRefCount[c] > 0
    /\ mMapFlushEventsToConnections' = << >>
    /\ mSensorEventBuffer' = << >>
    /\ ret' = NO_ERROR
    /\ Commit(ackWakeUpEvent(St, c))

\* SensorEventAckReceiver::threadLoop, pollOnce timed out
AckTimeout ==
    /\ mWakeLockAcquired
    /\ mMapFlushEventsToConnections' = << >>
    /\ mSensorEventBuffer' = << >>
    /\ ret' = NO_ERROR
    /\ Commit(resetAllWakeLockRefCounts(St))

\* SensorEventConnection::destroy -> SensorService::cleanupConnection
Destroy(c) ==
    /\ mMapFlushEventsToConnections' = << >>
    /\ mSensorEventBuffer' = << >>
    /\ ret' = NO_ERROR
    /\ Commit(cleanupConnection(St, c))

\* SensorService::changeOperatingMode(args, target)
ChangeMode(target, hasArgs, arg, setModeOk) ==
    LET r == changeOperatingMode(St, target, hasArgs, arg, setModeOk, isUserBuild)
    IN /\ mMapFlushEventsToConnections' = << >>
       /\ mSensorEventBuffer' = << >>
       /\ ret' = r.err
       /\ Commit(r.st)

\* SensorPrivacyPolicy::onSensorPrivacyChanged
PrivacyChanged(enabled) ==
    /\ mMapFlushEventsToConnections' = << >>
    /\ mSensorEventBuffer' = << >>
    /\ ret' = NO_ERROR
    /\ Commit(onSensorPrivacyChanged(St, enabled))

\* UidPolicy::onUidActive / onUidIdle
UidActive(d) ==
    /\ mMapFlushEventsToConnections' = << >>
    /\ mSensorEventBuffer' = << >>
    /\ ret' = NO_ERROR
    /\ Commit(onUidActive(St, d))

UidIdle(d) ==
    /\ mMapFlushEventsToConnections' = << >>
    /\ mSensorEventBuffer' = << >>
    /\ ret' = NO_ERROR
    /\ Commit(onUidIdle(St, d))

\* SensorService::createSensorDirectConnection, registration succeeded
CreateDirect(d) ==
    /\ d \notin mDirectConnections
    /\ ~mSensorPrivacyEnabled
    /\ mMapFlushEventsToConnections' = << >>
    /\ mSensorEventBuffer' = << >>
    /\ ret' = NO_ERROR
    /\ Commit([St EXCEPT !.mDirectConnections = @ \cup {d}])

\* SensorDirectConnection::configureChannel
ConfigureChannel(d, rate) ==
    /\ d \in mDirectConnections
    /\ mMapFlushEventsToConnections' = << >>
    /\ mSensorEventBuffer' = << >>
    /\ IF hasSensorAccessLocked(St, d)
       THEN /\ ret' = NO_ERROR
            /\ Commit([St EXCEPT !.mActivated[d] = rate])
       ELSE /\ ret' = INVALID_OPERATION
            /\ Commit(St)

(***************************************************************************)
(* Initial states.  InitWith(sensors, dyn, user): the service after        *)
(* onFirstRef with the given HAL sensor list.                              *)
(***************************************************************************)
\* no canAccessSensor call was made; the head-tracker restriction is on;
\* htRestricted is the restriction as the call found it
AccessIdle ==
    [pc |-> "idle", result |-> FALSE, uid |-> "app", type |-> "other",
     hasPermission |-> FALSE, requiredPermission |-> FALSE, opCode |-> -1,
     appOpMode |-> "MODE_ALLOWED", targetSdkVersion |-> -1,
     htRestricted |-> TRUE]

\* no adjustSamplingPeriodBasedOnMicAndPermission call was made
RateIdle ==
    [pc |-> "idle", requestedPeriodNs |-> 0, targetSdk |-> -1,
     hasSamplingRatePermission |-> FALSE, debuggable |-> FALSE,
     micPrivacy |-> FALSE, periodNs |-> 0, status |-> NO_ERROR]

\* no createSensorEventConnection call was made
CreateIdle ==
    [pc |-> "idle", result |-> FALSE, conn |-> NoConn, requestedMode |-> NORMAL,
     parity |-> 0]

\* the registration ring has SENSOR_REGISTRATIONS_BUF_SIZE slots, each a
\* default-constructed SensorRegistrationInfo (a sentinel) until it is written
SENSOR_REGISTRATIONS_BUF_SIZE == 3
Sentinel == [handle |-> -1, result |-> "", packageName |-> << >>, activated |-> FALSE]
DumpIdle == [pc |-> "idle", lines |-> << >>, iterations |-> 0]

ExpandIdle == [pc |-> "idle"]

\* no listener call was made yet
ProxIdle == [pc |-> "idle"]

\* no sampling period was computed yet
PeriodIdle == [pc |-> "idle"]

\* the RuntimeSensorHandler thread at the top of processRuntimeSensorEvents
RuntimeThreadIdle == [pc |-> "top"]

NoMem == "none"
NullHandle == [mem |-> NoMem, numFds |-> 0, valid |-> FALSE, regionSize |-> -1]
DirectIdle == [pc |-> "idle"]

ShellIdle == [pc |-> "idle", hasPermission |-> TRUE, status |-> 0,
              args |-> << >>, fdsValid |-> TRUE]

InitPolicy ==
    /\ mHtRestricted = TRUE
    /\ accessCall = AccessIdle
    /\ rateCall = RateIdle
    /\ createCall = CreateIdle
    /\ mOverrideUids = << >>
    /\ shellCall = ShellIdle
    /\ directMem = [d \in Directs |-> NoMem]
    /\ directCall = DirectIdle
    /\ mLastNSensorRegistrations = [i \in 0..(SENSOR_REGISTRATIONS_BUF_SIZE - 1) |-> Sentinel]
    /\ mNextSensorRegIndex = 0
    /\ registrations = << >>
    /\ dumpOut = DumpIdle
    /\ expandCall = ExpandIdle
    /\ mRuntimeSensorEventQueue = << >>
    /\ mRuntimeSensorHandler = FALSE
    /\ runtimeThread = RuntimeThreadIdle
    /\ mRuntimeSensorEventBuffer = << >>
    /\ runtimeEnqueued = << >>
    /\ runtimeDequeued = << >>
    /\ runtimeHanded = << >>
    /\ periodCall = PeriodIdle
    /\ proxCall = ProxIdle
    /\ proxDelivered = << >>
    /\ proxThreads = << >>
    /\ completedCallbackSeq = 0
    /\ curProxCallbackSeq = 0
    /\ mLastReportedProxIsActive = FALSE
    /\ mProximityActiveListeners = << >>

InitService(sensors, dyn, user) ==
    /\ InitPolicy
    /\ mSensors = sensors
    /\ usedHandles = sensors
    /\ mRecentEvent = [h \in sensors |-> NewLogger]
    /\ mActiveSensors = << >>
    /\ mActiveVirtualSensors = {}
    /\ mActiveConnections = {}
    /\ mDirectConnections = {}
    /\ mSensorInfo = [c \in Conns |-> {}]
    /\ mFirstFlushPending = [c \in Conns |-> {}]
    /\ mWakeLockRefCount = [c \in Conns |-> 0]
    /\ mWakeLockAcquired = FALSE
    /\ mCurrentOperatingMode = NORMAL
    /\ mAllowListedPackage = PkgEmpty
    /\ mSensorPrivacyEnabled = FALSE
    /\ mActiveUids = {}
    /\ mActivated = [d \in Directs |-> 0]
    /\ mActivatedBackup = [d \in Directs |-> 0]
    /\ halClients = [h \in Handles |-> {}]
    /\ halPendingFlush = [h \in Handles |-> 0]
    /\ devEnabled = TRUE
    /\ halMode = NORMAL
    /\ isUserBuild = user
    /\ halDynamic = dyn
    /\ mSensorEventBuffer = << >>
    /\ mMapFlushEventsToConnections = << >>
    /\ sent = [c \in Conns |-> << >>]
    /\ calls = << >>
    /\ halDynamicSensors = {}
    /\ mLooperWake = FALSE
    /\ heldWakeLocks = 0
    /\ halUidState = [c \in Conns |-> UID_STATE_NONE]
    /\ receiver = [pc |-> "check", timeout |-> -1]
    /\ mSensorFlags = << >>
    /\ ret = NO_ERROR
    /\ awaitingAck = {}
    /\ awaitingFlushComplete = {}
    /\ nextHandle = RUNTIME_SENSORS_HANDLE_BASE
    /\ runtimeCall = [t \in RuntimeCallers |-> RuntimeIdle]

\* the dispatch thread between two polls
Polling == [pc |-> "polling", i |-> 1, activeConnections |-> << >>, handles |-> << >>,
            known |-> {}, active |-> {}, notified |-> {}]

\* onFirstRef found the HAL's dynamic meta sensor
InitReconnectHandling ==
    /\ dynamic_sensor_hal_reconnect_handling = TRUE
    /\ mDynamicMetaSensorHandle = {DYNMETA}
    /\ reconnection = Polling

\* initializeHmacKey succeeded
InitIdentity ==
    /\ sHmacGlobalKeyIsValid = TRUE
    /\ hmacTable = [x \in DynamicUuids \X AppUids |-> 2]
    /\ idCall = IdIdle

InitWith(sensors, dyn, user) ==
    /\ InitService(sensors, dyn, user)
    /\ InitReconnectHandling
    /\ InitIdentity

(***************************************************************************)
(* Subscription bookkeeping: a one-shot wake-up sensor and a dynamic       *)
(* sensor, two clients.                                                    *)
(***************************************************************************)
EnableAny ==
    \E c \in Conns, h \in Handles \cup {NOSENSOR}, access \in BOOLEAN,
       batchOk \in BOOLEAN, flushOk \in BOOLEAN, activateOk \in BOOLEAN :
        Enable(c, h, access, batchOk, flushOk, activateOk)

DisableAny == \E c \in Conns, h \in Handles : Disable(c, h)

DispatchAny == \E buffer \in PollableBatches : Dispatch(buffer)

\* Acknowledgements are read from the sockets registered with the looper:
\* those of the connections that still have a subscription.
AckAny == \E c \in mActiveConnections : Ack(c)

DestroyAny == \E c \in Conns : Destroy(c)

InitSub == InitWith({SIGMOTION}, FALSE, FALSE)

NextSub == EnableAny \/ DisableAny \/ DispatchAny \/ AckAny \/ AckTimeout \/ DestroyAny

SpecSub == InitSub /\ [][NextSub]_vars

(***************************************************************************)
(* C1.  An Active Sensor Record exists for handle h if and only if at      *)
(* least one Event Connection has h in its subscription map.               *)
(***************************************************************************)
C1_RecordIffSubscribed ==
    \A h \in Handles \cup {NOSENSOR} :
        (h \in DOMAIN mActiveSensors) <=> (\E c \in Conns : h \in mSensorInfo[c])

(***************************************************************************)
(* C2.  While a connection holds a wake-up event that it has not           *)
(* acknowledged and the ack-receiver timeout has not fired, the system     *)
(* wakelock is held.                                                       *)
(***************************************************************************)
C2_WakeLockHeldUntilAck ==
    \A c \in Conns : c \in awaitingAck => mWakeLockAcquired

(***************************************************************************)
(* Dynamic sensors: no platform sensor, the HAL announces handle 4.        *)
(***************************************************************************)
InitDyn == InitWith({}, TRUE, FALSE)

NextDyn == EnableAny \/ DisableAny \/ DispatchAny \/ DestroyAny

SpecDyn == InitDyn /\ [][NextDyn]_vars

(***************************************************************************)
(* C6.  In a dispatch cycle whose batch holds an event of a one-shot       *)
(* sensor h, every connection C subscribed to h is written that event      *)
(* exactly once and, within the same cycle, loses its subscription to h    *)
(* and is auto-disabled on the HAL adapter; the record of h is destroyed   *)
(* when no connection is left in it.  A one-shot event is written only to  *)
(* a connection that is subscribed, so C gets no second event without a    *)
(* new enable.                                                             *)
(***************************************************************************)
OneShotEventsSent(s, h) ==
    Cardinality({i \in 1..Len(s) : s[i].type = DATA /\ s[i].sensor = h})

C6_OneShotAutoDisable ==
    [][\A buffer \in {mSensorEventBuffer'} \ {<< >>} :
         Dispatch(buffer) =>
           \A c \in Conns, h \in mSensors :
              getReportingMode(h) = ONE_SHOT =>
                /\ (OneShotEventsSent(sent'[c], h) > 0 => h \in mSensorInfo[c])
                /\ (CountEvents(buffer, DataEvent(h)) > 0 /\ h \in mSensorInfo[c]) =>
                      /\ OneShotEventsSent(sent'[c], h) = 1
                      /\ h \notin mSensorInfo'[c]
                      /\ c \notin halClients'[h]
                      /\ (h \in DOMAIN mActiveSensors' =>
                            mActiveSensors'[h].mConnections # {})
                      /\ (h \in DOMAIN mActiveSensors' <=>
                            \E c2 \in Conns : h \in mSensorInfo'[c2])]_vars

C6_Witness ==
    /\ OneShotEventsSent(sent["A"], SIGMOTION) = 1
    /\ SIGMOTION \notin mSensorInfo["A"]
    /\ SIGMOTION \notin DOMAIN mActiveSensors
    /\ "A" \notin mActiveConnections

(***************************************************************************)
(* On-change replay: one on-change wake-up sensor (handle 2), two clients. *)
(***************************************************************************)
InitReplay == InitWith({PROX}, FALSE, FALSE)

NextReplay == EnableAny \/ DisableAny \/ DispatchAny \/ AckAny \/ AckTimeout \/ DestroyAny

SpecReplay == InitReplay /\ [][NextReplay]_vars

ReplayedEvents(s, h) ==
    Cardinality({i \in 1..Len(s) : s[i].type = DATA /\ s[i].sensor = h /\ s[i].replay})

\* enable(c, h) is not turned away by the sensor lookup, the access check or
\* the mode gate
EnablePassesGates(c, h, access) ==
    /\ getSensorInterfaceFromHandle(St, h)
    /\ access
    /\ ~EnableRejectedByMode(mCurrentOperatingMode, mAllowListedPackage, c)

C5_NoReplayAcrossActivations ==
    \A c \in Conns : \A i \in 1..Len(sent[c]) :
        sent[c][i].replay => sent[c][i].fresh

\* An old value is logged, the record was destroyed and created again, two
\* clients have enabled the sensor since, and the last call wrote nothing.
C5_Witness ==
    /\ PROX \in DOMAIN mRecentEvent
    /\ mRecentEvent[PROX].hasEvent
    /\ ~mRecentEvent[PROX].thisActivation
    /\ ~mRecentEvent[PROX].current
    /\ PROX \in DOMAIN mActiveSensors
    /\ mActiveSensors[PROX].mConnections = {"A", "B"}
    /\ halClients[PROX] = {"A", "B"}
    /\ \A c \in Conns : sent[c] = << >>

(***************************************************************************)
(* Flush completions: one continuous sensor (handle 1), two clients,       *)
(* sensor privacy toggling.                                                *)
(***************************************************************************)
\* enable and disable of handle 1; the HAL accepts batch and activate, its
\* flush may fail
EnableAccel ==
    \E c \in Conns, flushOk \in BOOLEAN : Enable(c, ACCEL, TRUE, TRUE, flushOk, TRUE)

DisableAccel == \E c \in Conns : Disable(c, ACCEL)

FlushAny == \E c \in Conns, okHandles \in SUBSET {ACCEL} : Flush(c, okHandles)

PrivacyAny == \E enabled \in BOOLEAN : PrivacyChanged(enabled)

InitFlush == InitWith({ACCEL}, FALSE, FALSE)

NextFlush ==
    EnableAccel \/ DisableAccel \/ FlushAny \/ DispatchAny \/ PrivacyAny \/ DestroyAny

SpecFlush == InitFlush /\ [][NextFlush]_vars

\* the number of flush-complete events of h among buffer[1..i]
MetaRank(buffer, h, i) ==
    Cardinality({j \in 1..i : buffer[j] = FlushCompleteEvent(h)})

PendingFlushOf(active, h) ==
    IF h \in DOMAIN active THEN active[h].mPendingFlushConnections ELSE << >>

MetaWrittenAt(s, i) == \E k \in 1..Len(s) : s[k].type = META_DATA /\ s[k].idx = i

(***************************************************************************)
(* C3 as stated: once the HAL has returned every flush-complete event it   *)
(* owes for handle 1, the latest successful flush of a connection that is  *)
(* still subscribed to it has been answered by a META_DATA completion      *)
(* written to that connection.                                             *)
(***************************************************************************)
C3_ExactlyOneCompletionPerFlush ==
    \A c \in Conns :
        (halPendingFlush[ACCEL] = 0 /\ ACCEL \in mSensorInfo[c]) =>
            c \notin awaitingFlushComplete

(***************************************************************************)
(* C3, amended.  In every dispatch cycle the k-th flush-complete event     *)
(* polled for h is mapped to the k-th connection of h's pending-flush      *)
(* FIFO (to none when the FIFO is shorter), the mapped entries are popped  *)
(* in that order, and a META_DATA completion is written only to the        *)
(* connection it is mapped to; the mapped connection, when subscribed to   *)
(* h, is written the completion unless it consumes it as its first-flush   *)
(* marker.                                                                 *)
(***************************************************************************)
C3_CompletionToFifoHead ==
    [][\A buffer \in {mSensorEventBuffer'} \ {<< >>} :
         Dispatch(buffer) =>
           /\ \A i \in 1..Len(buffer) :
                LET e == buffer[i]
                    q == PendingFlushOf(mActiveSensors, e.handle)
                    k == MetaRank(buffer, e.handle, i)
                    m == mMapFlushEventsToConnections'[i]
                IN IF e.type = META_DATA
                   THEN /\ m = (IF k <= Len(q) THEN q[k] ELSE NoConn)
                        /\ \A c \in Conns :
                             /\ MetaWrittenAt(sent'[c], i) => m = c
                             /\ (m = c /\ e.handle \in mSensorInfo[c]) =>
                                   \/ MetaWrittenAt(sent'[c], i)
                                   \/ e.handle \in mFirstFlushPending[c]
                   ELSE m = NoConn
           /\ \A h \in DOMAIN mActiveSensors :
                LET q == PendingFlushOf(mActiveSensors, h)
                    n == MetaRank(buffer, h, Len(buffer))
                IN PendingFlushOf(mActiveSensors', h) =
                       (IF n >= Len(q) THEN << >> ELSE SubSeq(q, n + 1, Len(q)))]_vars

\* A and B both flushed; the completion of A's flush has just been written
\* to A and not to B, whose flush is still pending.
C3_Witness ==
    /\ ACCEL \in DOMAIN mActiveSensors
    /\ mActiveSensors[ACCEL].mConnections = {"A", "B"}
    /\ mActiveSensors[ACCEL].mPendingFlushConnections = <<"B">>
    /\ Len(mMapFlushEventsToConnections) >= 1
    /\ mMapFlushEventsToConnections[1] = "A"
    /\ MetaWrittenAt(sent["A"], 1)
    /\ ~MetaWrittenAt(sent["B"], 1)
    /\ "B" \in awaitingFlushComplete

(***************************************************************************)
(* Operating modes and direct connections: mode changes, sensor privacy,   *)
(* UID state, direct channels of two clients; both build flavours.         *)
(***************************************************************************)
AllowListArgs == {PkgTest, PkgEmpty}

ChangeModeAny ==
    \E target \in Modes, hasArgs \in BOOLEAN, arg \in AllowListArgs,
       setModeOk \in BOOLEAN :
        ChangeMode(target, hasArgs, arg, setModeOk)

UidActiveAny == \E d \in Directs : UidActive(d)

UidIdleAny == \E d \in Directs : UidIdle(d)

CreateDirectAny == \E d \in Directs : CreateDirect(d)

ConfigureAny == \E d \in Directs, rate \in 0..MaxRate : ConfigureChannel(d, rate)

InitMode == \E user \in BOOLEAN : InitWith({ACCEL}, FALSE, user)

NextMode ==
    ChangeModeAny \/ PrivacyAny \/ UidActiveAny \/ UidIdleAny \/ CreateDirectAny
        \/ ConfigureAny

SpecMode == InitMode /\ [][NextMode]_vars

\* the transitions between two different modes that changeOperatingMode makes
LegalTransition(from, to) ==
    \/ from = NORMAL /\ to = RESTRICTED
    \/ from = RESTRICTED /\ to = NORMAL
    \/ from = NORMAL /\ isInjectionMode(to)
    \/ isInjectionMode(from) /\ to = NORMAL

HalUnchanged ==
    UNCHANGED <<devEnabled, halMode, halClients, halPendingFlush, mActivated,
                mActivatedBackup>>

(***************************************************************************)
(* C8.  A change Normal -> Restricted with allowlist P disables all        *)
(* sensors on the HAL and pauses, with its rate backed up, every direct    *)
(* connection whose package P does not allowlist; a change Restricted ->   *)
(* Normal, with sensor privacy off, resumes every paused direct connection *)
(* of an active UID at its backed-up rate.                                 *)
(***************************************************************************)
C8_DirectPausedAndResumed ==
    [][\A arg \in AllowListArgs, setModeOk \in BOOLEAN :
         /\ (mCurrentOperatingMode = NORMAL
               /\ ChangeMode(RESTRICTED, TRUE, arg, setModeOk)) =>
              /\ devEnabled' = FALSE
              /\ \A d \in mDirectConnections :
                   ~isAllowListedPackage(arg, getPackageName(d)) =>
                      /\ mActivated'[d] = 0
                      /\ mActivated[d] # 0 => mActivatedBackup'[d] = mActivated[d]
         /\ (mCurrentOperatingMode = RESTRICTED /\ ~mSensorPrivacyEnabled
               /\ ChangeMode(NORMAL, TRUE, arg, setModeOk)) =>
              \A d \in mDirectConnections :
                  (d \in mActiveUids /\ mActivatedBackup[d] # 0) =>
                      mActivated'[d] = mActivatedBackup[d]]_vars

(***************************************************************************)
(* C9.  The operating mode changes only along Normal -> Restricted,        *)
(* Restricted -> Normal, Normal -> an injection mode and an injection mode *)
(* -> Normal; a request for any other change between two different modes   *)
(* returns INVALID_OPERATION and leaves the mode, the allowlist and the    *)
(* HAL unchanged.                                                          *)
(***************************************************************************)
C9_OnlyLegalTransitions ==
    [][/\ mCurrentOperatingMode' # mCurrentOperatingMode =>
             LegalTransition(mCurrentOperatingMode, mCurrentOperatingMode')
       /\ \A target \in Modes, hasArgs \in BOOLEAN, arg \in AllowListArgs,
             setModeOk \in BOOLEAN :
            (/\ target # mCurrentOperatingMode
             /\ ~LegalTransition(mCurrentOperatingMode, target)
             /\ ChangeMode(target, hasArgs, arg, setModeOk)) =>
                /\ ret' = INVALID_OPERATION
                /\ UNCHANGED <<mCurrentOperatingMode, mAllowListedPackage>>
                /\ HalUnchanged]_vars

\* A request made in DATA_INJECTION mode was refused; no direct connection
\* exists, so the refusal came from changeOperatingMode.
C9_Witness ==
    /\ mCurrentOperatingMode = DATA_INJECTION
    /\ mAllowListedPackage = PkgTest
    /\ mDirectConnections = {}
    /\ ret = INVALID_OPERATION

(***************************************************************************)
(* C10.  When the HAL set_mode call fails during a change from Normal to   *)
(* an injection mode, the operating mode stays Normal, the HAL mode is     *)
(* unchanged and the sensors disabled for the change are enabled again on  *)
(* the HAL.                                                                *)
(***************************************************************************)
C10_FailedSetModeReverts ==
    [][\A target \in Modes, arg \in AllowListArgs :
         (/\ isInjectionMode(target)
          /\ mCurrentOperatingMode = NORMAL
          /\ ~(isUserBuild /\ target # DATA_INJECTION)
          /\ ChangeMode(target, TRUE, arg, FALSE)) =>
             /\ mCurrentOperatingMode' = NORMAL
             /\ halMode' = halMode
             /\ devEnabled' = TRUE]_vars

\* Normal mode with an allowlisted package recorded: the trace of a change
\* to an injection mode whose set_mode call failed.
C10_Witness ==
    /\ mCurrentOperatingMode = NORMAL
    /\ mAllowListedPackage = PkgTest
    /\ halMode = NORMAL
    /\ devEnabled
    /\ ret = NO_ERROR

(***************************************************************************)
(* The mode gate of enable: one continuous sensor, two event clients (A of *)
(* package com.other, B of package com.test.helper), changes between       *)
(* Normal and Restricted mode.                                             *)
(***************************************************************************)
EnableGate ==
    \E c \in Conns, h \in {ACCEL, NOSENSOR}, access \in BOOLEAN, activateOk \in BOOLEAN :
        Enable(c, h, access, TRUE, TRUE, activateOk)

ChangeModeGate ==
    \E target \in {NORMAL, RESTRICTED}, hasArgs \in BOOLEAN, arg \in {PkgOther, PkgTest} :
        ChangeMode(target, hasArgs, arg, TRUE)

InitGate == InitWith({ACCEL}, FALSE, FALSE)

NextGate == EnableGate \/ DisableAccel \/ ChangeModeGate \/ DispatchAny \/ DestroyAny

SpecGate == InitGate /\ [][NextGate]_vars

EnableChangesNothing ==
    UNCHANGED <<mActiveSensors, mActiveVirtualSensors, mRecentEvent, mSensorInfo,
                mFirstFlushPending, mActiveConnections, mDirectConnections,
                halClients, halPendingFlush, devEnabled, halMode>>

(***************************************************************************)
(* C7 as stated: in Restricted mode an enable of a registered, accessible  *)
(* sensor by a connection whose package is not the allowlisted package     *)
(* returns INVALID_OPERATION and changes nothing.                          *)
(***************************************************************************)
C7_OtherPackageRejected ==
    [][\A c \in Conns :
         (/\ mCurrentOperatingMode = RESTRICTED
          /\ getPackageName(c) # mAllowListedPackage
          /\ Enable(c, ACCEL, TRUE, TRUE, TRUE, TRUE)) =>
             /\ ret' = INVALID_OPERATION
             /\ EnableChangesNothing]_vars

(***************************************************************************)
(* C7, amended.  In Restricted mode an enable by a connection whose        *)
(* package name does not contain the allowlisted string returns            *)
(* INVALID_OPERATION for a registered sensor the caller may access and     *)
(* BAD_VALUE otherwise, and in both cases changes neither the Active       *)
(* Sensor Records, the subscriptions, the connection holder nor the HAL.   *)
(***************************************************************************)
C7_NotContainingPackageRejected ==
    [][\A c \in Conns, h \in {ACCEL, NOSENSOR}, access \in BOOLEAN,
          activateOk \in BOOLEAN :
         (/\ mCurrentOperatingMode = RESTRICTED
          /\ ~contains(getPackageName(c), mAllowListedPackage)
          /\ Enable(c, h, access, TRUE, TRUE, activateOk)) =>
             /\ ret' = (IF h \in mSensors /\ access
                        THEN INVALID_OPERATION ELSE BAD_VALUE)
             /\ EnableChangesNothing]_vars

\* Restricted to com.test while B (com.test.helper) is subscribed and A
\* (com.other) is not: the last call was refused by the mode gate.
C7_Witness ==
    /\ mCurrentOperatingMode = RESTRICTED
    /\ mAllowListedPackage = PkgTest
    /\ ret = INVALID_OPERATION
    /\ ACCEL \in mSensorInfo["B"]
    /\ ACCEL \notin mSensorInfo["A"]

(***************************************************************************)
(* Mode requests on a user-build image: every request carries an allowlist *)
(* argument.                                                               *)
(***************************************************************************)
ChangeModeUser ==
    \E target \in Modes, arg \in AllowListArgs, setModeOk \in BOOLEAN :
        ChangeMode(target, TRUE, arg, setModeOk)

InitUser == InitWith({ACCEL}, FALSE, TRUE)

NextUser ==
    ChangeModeUser \/ PrivacyAny \/ UidActiveAny \/ UidIdleAny
        \/ CreateDirectAny \/ ConfigureAny

SpecUser == InitUser /\ [][NextUser]_vars

UserBuildModes == {NORMAL, RESTRICTED, DATA_INJECTION}

(***************************************************************************)
(* C11: on a user build the operating mode is always Normal, Restricted or *)
(* DataInjection, and every request for ReplayDataInjection or             *)
(* HalBypassReplayInjection returns INVALID_OPERATION and leaves the mode, *)
(* the allowlist and the HAL as they were.                                 *)
(***************************************************************************)
C11_NoReplayInjectionOnUserBuild ==
    /\ [](isUserBuild => mCurrentOperatingMode \in UserBuildModes)
    /\ [][\A target \in {REPLAY_DATA_INJECTION, HAL_BYPASS_REPLAY_DATA_INJECTION},
             hasArgs \in BOOLEAN, arg \in AllowListArgs, setModeOk \in BOOLEAN :
            (isUserBuild /\ ChangeMode(target, hasArgs, arg, setModeOk)) =>
                /\ ret' = INVALID_OPERATION
                /\ UNCHANGED <<mCurrentOperatingMode, mAllowListedPackage>>
                /\ HalUnchanged]_vars

\* In Normal mode with no direct connection, a request that carried an
\* allowlist was refused: it asked for a replay injection mode.
C11_Witness ==
    /\ isUserBuild
    /\ mCurrentOperatingMode = NORMAL
    /\ mDirectConnections = {}
    /\ ret = INVALID_OPERATION

(***************************************************************************)
(* Runtime sensors.  registerRuntimeSensor draws a handle before it takes  *)
(* mLock: the read and the write of nextHandle++ and the isNewHandle test  *)
(* are steps of the caller thread that other threads interleave with; the  *)
(* registration itself runs under mLock.                                   *)
(***************************************************************************)
NonSensorHandle == 0

\* nextRuntimeSensorHandle: the read of the static counter
RuntimeRead(t) ==
    /\ runtimeCall[t].pc = "idle"
    /\ runtimeCall' = [runtimeCall EXCEPT ![t] =
           IF nextHandle = RUNTIME_SENSORS_HANDLE_END
           THEN [pc |-> "idle", handle |-> 0, result |-> -1]
           ELSE [pc |-> "read", handle |-> nextHandle, result |-> 0]]
    /\ UNCHANGED <<receiver, nextHandle, ret, reconnection>>
    /\ mMapFlushEventsToConnections' = << >>
    /\ mSensorEventBuffer' = << >>
    /\ CommitService(St)

\* nextRuntimeSensorHandle: the write of the static counter, and the
\* isNewHandle test of the loop in registerRuntimeSensor
RuntimeIncrement(t) ==
    /\ runtimeCall[t].pc = "read"
    /\ nextHandle' = runtimeCall[t].handle + 1
    /\ runtimeCall' = [runtimeCall EXCEPT ![t].pc =
           IF isNewHandle(St, runtimeCall[t].handle) THEN "drawn" ELSE "idle"]
    /\ UNCHANGED <<receiver, ret, reconnection>>
    /\ mMapFlushEventsToConnections' = << >>
    /\ mSensorEventBuffer' = << >>
    /\ CommitService(St)

\* registerRuntimeSensor, from Mutex::Autolock _l(mLock) on
RuntimeRegister(t) ==
    /\ runtimeCall[t].pc = "drawn"
    /\ LET h == runtimeCall[t].handle
           s1 == registerSensor(St, h)
       IN /\ runtimeCall' = [runtimeCall EXCEPT ![t] =
                 [pc |-> "idle", handle |-> h,
                  result |-> IF h \in s1.mSensors \ mSensors
                             THEN h ELSE NonSensorHandle]]
          \* the first successful registration allocates the buffer and
          \* starts the RuntimeSensorHandler thread
          /\ mRuntimeSensorHandler' =
                 (mRuntimeSensorHandler \/ h \in s1.mSensors \ mSensors)
          /\ CommitState(s1)
    /\ UNCHANGED <<mHtRestricted, accessCall, rateCall, createCall, shellVars,
                   directVars, ringVars, expandCall, runtimeQueueVars, tailVars>>
    /\ UNCHANGED <<receiver, nextHandle, ret, reconnection>>
    /\ mMapFlushEventsToConnections' = << >>
    /\ mSensorEventBuffer' = << >>

\* SensorService::unregisterRuntimeSensor(handle)
unregisterRuntimeSensor(st, handle) ==
    IF handle \in st.mSensors
    THEN removeSensorFromEach(unregisterDynamicSensorLocked(st, handle),
                              SetToSeq(st.mActiveConnections), handle)
    ELSE st

RuntimeUnregister(h) ==
    /\ h \in mSensors
    /\ UNCHANGED <<receiver, nextHandle, runtimeCall, ret, reconnection>>
    /\ mMapFlushEventsToConnections' = << >>
    /\ mSensorEventBuffer' = << >>
    /\ CommitService(unregisterRuntimeSensor(St, h))

RuntimeHandles == RUNTIME_SENSORS_HANDLE_BASE..(RUNTIME_SENSORS_HANDLE_END - 1)

RuntimeReadAny == \E t \in RuntimeCallers : RuntimeRead(t)
RuntimeIncrementAny == \E t \in RuntimeCallers : RuntimeIncrement(t)
RuntimeRegisterAny == \E t \in RuntimeCallers : RuntimeRegister(t)
RuntimeUnregisterAny == \E h \in RuntimeHandles : RuntimeUnregister(h)

\* the HAL announces the connection or disconnection of its dynamic sensor
DispatchDyn ==
    \E b \in BOOLEAN : Dispatch(<<DynamicMetaEvent(DYNSENSOR, b)>>)

InitRegistry == InitWith({ACCEL}, TRUE, FALSE)

NextRegistry ==
    RuntimeReadAny \/ RuntimeIncrementAny \/ RuntimeRegisterAny
        \/ RuntimeUnregisterAny \/ DispatchDyn

SpecRegistry == InitRegistry /\ [][NextRegistry]_vars

\* a step registers only handles that were never used before
RegistersOnlyNewHandles == \A h \in mSensors' \ mSensors : h \notin usedHandles

\* a successful runtime registration returns a never-used handle of the range
RuntimeRegistrationFresh ==
    \A t \in RuntimeCallers :
        (RuntimeRegister(t) /\ runtimeCall'[t].result # NonSensorHandle) =>
            /\ runtimeCall'[t].result \in RuntimeHandles
            /\ runtimeCall'[t].result \notin usedHandles
            /\ runtimeCall'[t].result \in mSensors'

\* a call that finds the range exhausted returns -1 and registers nothing
RuntimeExhausted ==
    \A t \in RuntimeCallers :
        (nextHandle = RUNTIME_SENSORS_HANDLE_END /\ RuntimeRead(t)) =>
            /\ runtimeCall'[t].result < 0
            /\ UNCHANGED <<mSensors, usedHandles>>

MaxTimestamp == 2
IntBits == 2

Timestamps == 0..MaxTimestamp

TimedEvent(h, ts) ==
    [handle |-> h, type |-> DATA, sensor |-> h, connected |-> FALSE,
     flags |-> {}, replay |-> FALSE, fresh |-> TRUE, timestamp |-> ts]

\* conversion of an int64_t difference to the int the comparator returns
ToInt(x) == ((x + 2^(IntBits - 1)) % 2^IntBits) - 2^(IntBits - 1)

\* sortEventBuffer's compar::cmp
cmp(lhs, rhs) == ToInt(lhs.timestamp - rhs.timestamp)

Arrangements(n) ==
    {p \in [1..n -> 1..n] : \A i, j \in 1..n : p[i] = p[j] => i = j}

\* the comparator orders the elements of buffer as a total preorder
ConsistentOn(buffer) ==
    \A i, j, k \in 1..Len(buffer) :
        /\ (cmp(buffer[i], buffer[j]) < 0) = (cmp(buffer[j], buffer[i]) > 0)
        /\ (cmp(buffer[i], buffer[j]) <= 0 /\ cmp(buffer[j], buffer[k]) <= 0)
               => cmp(buffer[i], buffer[k]) <= 0

\* qsort: with a consistent comparator any arrangement the comparator
\* reports as ordered, with an inconsistent one (undefined by the C library
\* contract) any arrangement
sortEventBuffer(buffer) ==
    LET n == Len(buffer)
        arranged(p) == [i \in 1..n |-> buffer[p[i]]]
    IN IF ConsistentOn(buffer)
       THEN {arranged(p) : p \in {q \in Arrangements(n) :
                 \A i \in 1..(n - 1) :
                     cmp(buffer[q[i]], buffer[q[i + 1]]) <= 0}}
       ELSE {arranged(p) : p \in Arrangements(n)}

\* threadLoop, virtual sensors: the outputs of the active virtual sensors
\* for the polled events; produces[i] tells whether process() returned an
\* output for event i
RECURSIVE virtualOutputs(_, _, _, _)
virtualOutputs(st, buffer, produces, i) ==
    IF i > Len(buffer) THEN << >>
    ELSE (IF /\ GRAVITY \in st.mActiveVirtualSensors
             /\ getSensorInterfaceFromHandle(st, GRAVITY)
             /\ produces[i]
          THEN <<TimedEvent(GRAVITY, buffer[i].timestamp)>>
          ELSE << >>) \o virtualOutputs(st, buffer, produces, i + 1)

\* the batches threadLoop may hand to the connections for a polled batch
expandedBatches(st, buffer, produces) ==
    LET out == virtualOutputs(st, buffer, produces, 1)
    IN IF out # << >> THEN sortEventBuffer(buffer \o out) ELSE {buffer}

\* A batch of the HAL: events of the hardware sensors, those of one sensor
\* in timestamp order.
TimedBatches ==
    {b \in UNION {[1..n -> {TimedEvent(h, ts) : h \in {ACCEL, PROX}, ts \in Timestamps}] :
                    n \in 1..MaxBatch} :
        \A i, j \in 1..Len(b) :
            (i < j /\ b[i].sensor = b[j].sensor) => b[i].timestamp <= b[j].timestamp}

\* SensorService::threadLoop, one iteration on a batch with timestamps
DispatchTimed(polled, produces) ==
    /\ \A c \in Conns : mWakeLockRefCount[c] + Len(polled) <= MaxRefCount
    /\ \E buffer \in expandedBatches(St, polled, produces) :
          LET r == threadLoopIteration(St, buffer)
          IN /\ mSensorEventBuffer' = buffer
             /\ mMapFlushEventsToConnections' = r.map
             /\ ret' = NO_ERROR
             /\ Commit(r.st)

\* the outputs process() may return: none while no virtual sensor is active,
\* else an output for at most MaxOutputs of the polled events
MaxOutputs == 1

ProcessOutcomes(polled) ==
    IF mActiveVirtualSensors = {}
    THEN {[i \in 1..Len(polled) |-> FALSE]}
    ELSE {f \in [1..Len(polled) -> BOOLEAN] :
             Cardinality({i \in 1..Len(polled) : f[i]}) <= MaxOutputs}

DispatchTimedAny ==
    \E polled \in TimedBatches :
        \E produces \in ProcessOutcomes(polled) : DispatchTimed(polled, produces)

\* one client subscribes to the hardware sensors and to the virtual sensor
EnableOrder ==
    \E h \in {ACCEL, PROX, GRAVITY} : Enable("A", h, TRUE, TRUE, FALSE, TRUE)

DisableOrder == \E h \in {ACCEL, PROX, GRAVITY} : Disable("A", h)

InitOrder == InitWith({ACCEL, PROX, GRAVITY}, FALSE, FALSE)

NextOrder == EnableOrder \/ DisableOrder \/ DispatchTimedAny \/ AckTimeout

SpecOrder == InitOrder /\ [][NextOrder]_vars

\* the timestamps of the events written to connection c by the last cycle
DeliveredTimestamps(c) ==
    [i \in 1..Len(sent[c]) |-> mSensorEventBuffer[sent[c][i].idx].timestamp]

(***************************************************************************)
(* C13: after every dispatch cycle, the events written to any connection   *)
(* are in non-decreasing timestamp order.                                  *)
(***************************************************************************)
C13_NonDecreasingTimestamps ==
    mSensorEventBuffer # << >> =>
        \A c \in Conns :
            \A i, j \in 1..Len(sent[c]) :
                i < j => DeliveredTimestamps(c)[i] <= DeliveredTimestamps(c)[j]

(***************************************************************************)
(* Identity: SensorService::getIdFromUuid.  HMAC-SHA256 is a function of   *)
(* the key and of the message uuid || uid; the key is written once, by     *)
(* initializeHmacKey, so the hash of every message is fixed from then on:  *)
(* hmacTable is that function, any one of the functions a key can give.    *)
(* A call of HMAC can fail (it returns nullptr), and initializeHmacKey     *)
(* fails when RAND_bytes does.                                             *)
(***************************************************************************)
EVP_SHA256_SIZE == 32
SizeofId == 4

\* the last step of getIdFromUuid: 0 and -1 are not returned as dynamic ids
idFromHash_raw(id) == id

idFromHash(id) ==
    IF id = -1 THEN -2
    ELSE IF id = 0 THEN 1
    ELSE id

getIdFromUuid(uuid, appUserId, hmacOk, hashLen) ==
    IF uuid[1] = 0 /\ uuid[2] = 0 THEN 0
    ELSE IF uuid[1] = -1 /\ uuid[2] = -1 THEN -1
    ELSE IF ~sHmacGlobalKeyIsValid THEN 0
    ELSE IF ~hmacOk THEN 0
    ELSE IF hashLen < SizeofId THEN 0
    ELSE idFromHash(hmacTable[<<uuid, appUserId>>])

GetId(uuid, appUserId, hmacOk, hashLen) ==
    /\ idCall' = [pc |-> "done", uuid |-> uuid, uid |-> appUserId,
                  hmacOk |-> hmacOk, hashLen |-> hashLen,
                  id |-> getIdFromUuid(uuid, appUserId, hmacOk, hashLen)]
    /\ UNCHANGED policyVars
    /\ UNCHANGED <<sHmacGlobalKeyIsValid, hmacTable, receiver, mLooperWake,
                   heldWakeLocks, halUidState, nextHandle, runtimeCall, ret,
                   reconnection, halDynamicSensors,
                   dynamic_sensor_hal_reconnect_handling, mDynamicMetaSensorHandle>>
    /\ mMapFlushEventsToConnections' = << >>
    /\ mSensorEventBuffer' = << >>
    /\ mSensors' = mSensors /\ usedHandles' = usedHandles
    /\ mRecentEvent' = mRecentEvent /\ mActiveSensors' = mActiveSensors
    /\ mActiveVirtualSensors' = mActiveVirtualSensors
    /\ mActiveConnections' = mActiveConnections
    /\ mDirectConnections' = mDirectConnections
    /\ mSensorInfo' = mSensorInfo /\ mFirstFlushPending' = mFirstFlushPending
    /\ mWakeLockRefCount' = mWakeLockRefCount
    /\ mWakeLockAcquired' = mWakeLockAcquired
    /\ mCurrentOperatingMode' = mCurrentOperatingMode
    /\ mAllowListedPackage' = mAllowListedPackage
    /\ mSensorPrivacyEnabled' = mSensorPrivacyEnabled
    /\ mActiveUids' = mActiveUids /\ mActivated' = mActivated
    /\ mActivatedBackup' = mActivatedBackup /\ halClients' = halClients
    /\ halPendingFlush' = halPendingFlush /\ devEnabled' = devEnabled
    /\ halMode' = halMode /\ isUserBuild' = isUserBuild
    /\ halDynamic' = halDynamic /\ sent' = sent /\ awaitingAck' = awaitingAck
    /\ calls' = << >> /\ mSensorFlags' = mSensorFlags
    /\ awaitingFlushComplete' = awaitingFlushComplete

GetIdAny ==
    \E uuid \in Uuids, appUserId \in AppUids, hmacOk \in BOOLEAN :
        GetId(uuid, appUserId, hmacOk, EVP_SHA256_SIZE)

InitId ==
    /\ InitService({ACCEL}, FALSE, FALSE)
    /\ InitReconnectHandling
    /\ sHmacGlobalKeyIsValid \in BOOLEAN
    /\ hmacTable \in [DynamicUuids \X AppUids -> HashValues]
    /\ idCall = IdIdle

NextId == GetIdAny

SpecId == InitId /\ [][NextId]_vars

\* what the identity layer promises for a hash value
IdOfHash(raw) == IF raw = 0 THEN 1 ELSE IF raw = -1 THEN -2 ELSE raw

\* C14, as stated: getIdFromUuid returns 0 for the all-zero uuid and -1 for
\* the all-ones uuid; for every other uuid the result is never 0 or -1 and
\* is the hash of (key, uuid, calling uid), with 0 replaced by 1 and -1 by -2.
C14_IdNeverSentinel ==
    idCall.pc = "done" =>
        /\ idCall.uuid = UUID_ZERO => idCall.id = 0
        /\ idCall.uuid = UUID_ONES => idCall.id = -1
        /\ idCall.uuid \notin {UUID_ONES, UUID_ZERO} =>
               /\ idCall.id \notin {-1, 0}
               /\ idCall.id = IdOfHash(hmacTable[<<idCall.uuid, idCall.uid>>])

\* C14, amended: the same, for a uuid that is neither all zeros nor all ones
\* only when the key was initialized and the HMAC call succeeded; when either
\* failed the result is 0.
C14_IdFromValidKey ==
    idCall.pc = "done" =>
        /\ idCall.uuid = UUID_ZERO => idCall.id = 0
        /\ idCall.uuid = UUID_ONES => idCall.id = -1
        /\ idCall.uuid \notin {UUID_ONES, UUID_ZERO} =>
               IF sHmacGlobalKeyIsValid /\ idCall.hmacOk
               THEN /\ idCall.id \notin {-1, 0}
                    /\ idCall.id = IdOfHash(hmacTable[<<idCall.uuid, idCall.uid>>])
               ELSE idCall.id = 0

C14_Witness ==
    /\ idCall.pc = "done"
    /\ idCall.uuid \in DynamicUuids
    /\ sHmacGlobalKeyIsValid /\ idCall.hmacOk
    /\ hmacTable[<<idCall.uuid, idCall.uid>>] = 0
    /\ idCall.id = 1

(***************************************************************************)
(* Dynamic sensors connecting and disconnecting: the HAL reports           *)
(* DYNAMIC_SENSOR_META events for DYNSENSOR, with or without the dynamic   *)
(* flag in the sensor_t it supplies, among data events.                    *)
(***************************************************************************)
HalSensorFlags == {{}, {DYNAMIC_SENSOR_MASK}}

HotplugEvents ==
    {DataEvent(h) : h \in mSensors \cap {DYNSENSOR}}
    \cup {DynamicSensorMeta(DYNSENSOR, TRUE, f) : f \in HalSensorFlags}
    \cup {DynamicSensorMeta(DYNSENSOR, FALSE, {})}

HotplugBatches == UNION {[1..n -> HotplugEvents] : n \in 1..MaxBatch}

DispatchHotplug == \E buffer \in HotplugBatches : Dispatch(buffer)

EnableHotplug ==
    \E c \in Conns, h \in {ACCEL, DYNSENSOR} : Enable(c, h, TRUE, TRUE, FALSE, TRUE)

DisableHotplug == \E c \in Conns : Disable(c, DYNSENSOR)

InitHotplug == InitWith({ACCEL}, TRUE, FALSE)

NextHotplug == EnableHotplug \/ DisableHotplug \/ DispatchHotplug

SpecHotplug == InitHotplug /\ [][NextHotplug]_vars

\* the handleDynamicSensorConnection calls among a sequence of calls
RECURSIVE DynamicConnectionCalls(_)
DynamicConnectionCalls(cs) ==
    IF cs = << >> THEN << >>
    ELSE (IF Head(cs).op = "handleDynamicSensorConnection"
          THEN <<<<Head(cs).handle, Head(cs).connected>>>> ELSE << >>)
         \o DynamicConnectionCalls(Tail(cs))

\* What the DYNAMIC_SENSOR_META events of a batch are to do, event by event:
\* registered and used are the registry, hal the calls to the HAL, removed the
\* handles disconnected, covered is FALSE when the batch disconnects a handle
\* that is not registered.
RECURSIVE MetaExpect(_, _, _)
MetaExpect(buffer, i, acc) ==
    IF i > Len(buffer) THEN acc
    ELSE LET e == buffer[i]
             h == e.handle
             next ==
                 IF e.type # DYNAMIC_SENSOR_META THEN acc
                 ELSE IF e.connected
                 THEN IF h \notin acc.used
                      THEN [acc EXCEPT !.registered = @ \cup {h},
                                       !.used = @ \cup {h},
                                       !.added = @ \cup {h},
                                       !.hal = Append(@, <<h, TRUE>>)]
                      ELSE acc
                 ELSE IF h \in acc.registered
                      THEN [acc EXCEPT !.registered = @ \ {h},
                                       !.removed = @ \cup {h},
                                       !.hal = Append(@, <<h, FALSE>>)]
                      ELSE [acc EXCEPT !.covered = FALSE]
         IN MetaExpect(buffer, i + 1, next)

\* C15: a DYNAMIC_SENSOR_META(connected, h) event for a handle never used
\* registers h once, with the dynamic flag and a recent-event logger, and
\* calls handleDynamicSensorConnection(h, true) once; a connected=false event
\* for a registered h removes it from the registry with its logger, calls
\* handleDynamicSensorConnection(h, false) and removes h from the
\* subscriptions of every active connection; a connected event for a used
\* handle registers nothing and calls nothing.
C15_DynamicSensorLifecycle ==
    [][mSensorEventBuffer' # << >> =>
          LET x == MetaExpect(mSensorEventBuffer', 1,
                       [added |-> {}, used |-> usedHandles,
                        registered |-> mSensors, hal |-> << >>, removed |-> {},
                        covered |-> TRUE])
          IN x.covered =>
                /\ mSensors' = x.registered
                /\ usedHandles' = x.used
                /\ DynamicConnectionCalls(calls') = x.hal
                /\ \A h \in x.added \cap x.registered :
                      /\ h \in DOMAIN mSensorFlags'
                      /\ DYNAMIC_SENSOR_MASK \in mSensorFlags'[h]
                      /\ h \in DOMAIN mRecentEvent'
                /\ \A h \in x.removed :
                      /\ h \notin DOMAIN mRecentEvent'
                      /\ h \notin DOMAIN mSensorFlags'
                      /\ \A c \in mActiveConnections : h \notin mSensorInfo'[c]]_vars

\* a subscribed dynamic sensor was disconnected by the last dispatch cycle
C15_Witness ==
    /\ mSensorEventBuffer # << >>
    /\ \E i \in 1..Len(mSensorEventBuffer) :
          /\ mSensorEventBuffer[i].type = DYNAMIC_SENSOR_META
          /\ ~mSensorEventBuffer[i].connected
    /\ DynamicConnectionCalls(calls) = <<<<DYNSENSOR, FALSE>>>>
    /\ DYNSENSOR \in usedHandles \ mSensors
    /\ DYNSENSOR \in DOMAIN mActiveSensors
    /\ mActiveConnections # {}

(***************************************************************************)
(* HAL reconnection: SensorService::handleDeviceReconnection, run by the   *)
(* dispatch thread when poll returns DEAD_OBJECT and the device is         *)
(* reconnecting.  mLock is released at the end of the statement that takes *)
(* the snapshot of the active connections, so the calls of other threads   *)
(* interleave with the iterations of the loop.  known, active and notified *)
(* record, for the last handling, the dynamic sensors the HAL held and the *)
(* active connections at detection, and the (handle, connection) pairs for *)
(* which sendEvents was called with the synthetic event.  The release of   *)
(* the wakelock at the end of sendEventsToAllClients is two steps here:    *)
(* the reads of mWakeLockAcquired, then release_wake_lock and the write.   *)
(***************************************************************************)
\* device.reconnect()
reconnect(st) == Logged(st, Call("reconnect", 0, FALSE, NoConn))

\* poll returned DEAD_OBJECT, isReconnecting(): entry of handleDeviceReconnection
DetectDeadHal ==
    /\ reconnection.pc = "polling"
    /\ reconnection' =
           [pc |-> "handling",
            i |-> 1,
            activeConnections |-> IF dynamic_sensor_hal_reconnect_handling
                                  THEN SetToSeq(mActiveConnections) ELSE << >>,
            handles |-> IF dynamic_sensor_hal_reconnect_handling
                        THEN SetToSeq(halDynamicSensors) ELSE << >>,
            known |-> halDynamicSensors, active |-> mActiveConnections,
            notified |-> {}]
    /\ mSensorEventBuffer' = << >>
    /\ mMapFlushEventsToConnections' = << >>
    /\ UNCHANGED <<receiver, nextHandle, runtimeCall, ret>>
    /\ CommitService(St)

\* the synthetic event written to mSensorEventBuffer[0]
SyntheticDisconnect(handle) ==
    [DynamicSensorMeta(handle, FALSE, {}) EXCEPT
        !.sensor = CHOOSE x \in mDynamicMetaSensorHandle : TRUE]

SendEventsCalledFor(cs) ==
    {cs[k].conn : k \in {j \in 1..Len(cs) : cs[j].op = "sendEvents"}}

\* Variant: the sensor stays in the registry.
disconnectForReconnection_halOnly(st, handle, activeConnections) ==
    handleDynamicSensorConnection(st, handle, FALSE)

disconnectForReconnection(st, handle, activeConnections) ==
    disconnectDynamicSensor(st, handle, activeConnections)

\* one iteration of the loop over device.getDynamicSensorHandles()
DisconnectNext ==
    /\ reconnection.pc = "handling"
    /\ reconnection.i <= Len(reconnection.handles)
    /\ IF mDynamicMetaSensorHandle # {}
       THEN LET handle == reconnection.handles[reconnection.i]
                conns == reconnection.activeConnections
                s1 == disconnectForReconnection(St, handle, conns)
                r == sendToEach(s1, conns, <<SyntheticDisconnect(handle)>>,
                                <<NoConn>>, FALSE)
                s2 == r.st
            IN /\ mSensorEventBuffer' = <<SyntheticDisconnect(handle)>>
               /\ mMapFlushEventsToConnections' = <<NoConn>>
               /\ reconnection' =
                      [reconnection EXCEPT
                          !.pc = IF s2.mWakeLockAcquired /\ ~r.needsWakeLock
                                 THEN "releasing" ELSE "handling",
                          !.i = @ + 1,
                          !.notified = @ \cup
                              {<<handle, c>> : c \in SendEventsCalledFor(s2.calls)}]
               /\ CommitService(s2)
       ELSE /\ mSensorEventBuffer' = << >>
            /\ mMapFlushEventsToConnections' = << >>
            /\ reconnection' = [reconnection EXCEPT !.i = Len(reconnection.handles) + 1]
            /\ CommitService(St)
    /\ UNCHANGED <<receiver, nextHandle, runtimeCall, ret>>

\* the end of sendEventsToAllClients in the loop: mWakeLockAcquired was read
\* as true, in sendEventsToAllClients and in setWakeLockAcquiredLocked(false),
\* without mLock; release_wake_lock and the write of the flag follow
ReconnectionRelease ==
    /\ reconnection.pc = "releasing"
    /\ reconnection' = [reconnection EXCEPT !.pc = "handling"]
    /\ mSensorEventBuffer' = << >>
    /\ mMapFlushEventsToConnections' = << >>
    /\ UNCHANGED <<receiver, nextHandle, runtimeCall, ret>>
    /\ CommitService([release_wake_lock(St) EXCEPT !.mWakeLockAcquired = FALSE])

\* device.reconnect(), and back to poll
Reconnect ==
    /\ reconnection.pc = "handling"
    /\ reconnection.i > Len(reconnection.handles)
    /\ reconnection' = [reconnection EXCEPT !.pc = "polling"]
    /\ mSensorEventBuffer' = << >>
    /\ mMapFlushEventsToConnections' = << >>
    /\ UNCHANGED <<receiver, nextHandle, runtimeCall, ret>>
    /\ CommitService(reconnect(St))

DynamicHandles == {DYNSENSOR, DYNSENSOR2}

ConnectEvents == {DynamicSensorMeta(h, TRUE, {}) : h \in DynamicHandles}

DispatchConnect == \E e \in ConnectEvents : Dispatch(<<e>>)

EnableDynamic == Enable("A", DYNSENSOR, TRUE, TRUE, FALSE, TRUE)

DestroyAnyConn == \E c \in Conns : Destroy(c)

InitReconnect ==
    /\ InitService({PROX}, TRUE, FALSE)
    /\ InitIdentity
    /\ dynamic_sensor_hal_reconnect_handling \in BOOLEAN
    /\ mDynamicMetaSensorHandle \in
           (IF dynamic_sensor_hal_reconnect_handling
            THEN {{}, {DYNMETA}} ELSE {{}})
    /\ reconnection = Polling

EnableProx == \E c \in Conns : Enable(c, PROX, TRUE, TRUE, FALSE, TRUE)

DispatchProx == Dispatch(<<DataEvent(PROX)>>)

NextReconnect ==
    \/ DetectDeadHal \/ DisconnectNext \/ ReconnectionRelease \/ Reconnect
    \/ DispatchConnect \/ EnableDynamic \/ DestroyAnyConn
    \/ EnableProx \/ DispatchProx \/ AckAny

SpecReconnect == InitReconnect /\ [][NextReconnect]_vars

ReconnectCalls(cs) == {k \in 1..Len(cs) : cs[k].op = "reconnect"}

\* the disconnects the handling owes before it calls reconnect()
DisconnectedAll ==
    \A h \in reconnection.known :
        /\ h \notin mSensors
        /\ \A c \in reconnection.active : <<h, c>> \in reconnection.notified

\* reconnect() is called once, at the end of a handling, and the thread
\* goes back to poll
ReconnectOncePerDetection ==
    /\ Cardinality(ReconnectCalls(calls')) <= 1
    /\ ReconnectCalls(calls') # {} =>
           reconnection.pc = "handling" /\ reconnection'.pc = "polling"
    /\ reconnection.pc = "handling" /\ reconnection'.pc = "polling" =>
           ReconnectCalls(calls') # {}

\* C16, as stated: when reconnect() has been called, every dynamic sensor the
\* HAL held at detection is out of the registry and its synthetic
\* DYNAMIC_SENSOR_META(connected=false) event went to every connection active
\* at detection; reconnect() is called once per detection and polling resumes.
C16_DisconnectsBeforeReconnect ==
    /\ [](ReconnectCalls(calls) # {} => DisconnectedAll)
    /\ [][ReconnectOncePerDetection]_vars

\* C16, amended: the same, the disconnects only when the build has
\* dynamic_sensor_hal_reconnect_handling and the HAL's sensor list held a
\* dynamic meta sensor at init.
C16_DisconnectsBeforeReconnectWhenHandled ==
    /\ [](/\ ReconnectCalls(calls) # {}
          /\ dynamic_sensor_hal_reconnect_handling
          /\ mDynamicMetaSensorHandle # {}
          => DisconnectedAll)
    /\ [][ReconnectOncePerDetection]_vars

C16_Witness ==
    /\ ReconnectCalls(calls) # {}
    /\ reconnection.known = DynamicHandles
    /\ reconnection.active = Conns
    /\ reconnection.notified = DynamicHandles \X Conns
    /\ mSensors \cap DynamicHandles = {}

(***************************************************************************)
(* The ack receiver: SensorEventAckReceiver::threadLoop.  It reads the     *)
(* wakelock flag under mLock, then blocks in pollOnce, for 5 s when the    *)
(* flag was set and without limit otherwise.  pollOnce returns at once     *)
(* when a wake() is pending.  No client acknowledges here: the looper's    *)
(* only other business is the cache resend of a connection whose socket    *)
(* became writable (SensorService::sendEventsFromCache).                   *)
(***************************************************************************)
AckTimeoutMs == 5000
NoTimeout == -1

\* bool wakeLockAcquired = mService->isWakeLockAcquired(); timeout
ReceiverCheck ==
    /\ receiver.pc = "check"
    /\ receiver' = [pc |-> "wait",
                    timeout |-> IF mWakeLockAcquired THEN AckTimeoutMs ELSE NoTimeout]
    /\ mSensorEventBuffer' = << >>
    /\ mMapFlushEventsToConnections' = << >>
    /\ UNCHANGED <<nextHandle, runtimeCall, ret, reconnection>>
    /\ CommitService(St)

\* pollOnce returns because the looper was woken
ReceiverWoken ==
    /\ receiver.pc = "wait"
    /\ mLooperWake
    /\ receiver' = [receiver EXCEPT !.pc = "check"]
    /\ mSensorEventBuffer' = << >>
    /\ mMapFlushEventsToConnections' = << >>
    /\ UNCHANGED <<nextHandle, runtimeCall, ret, reconnection>>
    /\ CommitService([St EXCEPT !.mLooperWake = FALSE])

\* pollOnce returns ALOOPER_POLL_TIMEOUT
ReceiverTimeout ==
    /\ receiver.pc = "wait"
    /\ ~mLooperWake
    /\ receiver.timeout = AckTimeoutMs
    /\ receiver' = [receiver EXCEPT !.pc = "timedout"]
    /\ mSensorEventBuffer' = << >>
    /\ mMapFlushEventsToConnections' = << >>
    /\ UNCHANGED <<nextHandle, runtimeCall, ret, reconnection>>
    /\ CommitService(St)

\* mService->resetAllWakeLockRefCounts()
ReceiverReset ==
    /\ receiver.pc = "timedout"
    /\ receiver' = [receiver EXCEPT !.pc = "check"]
    /\ mSensorEventBuffer' = << >>
    /\ mMapFlushEventsToConnections' = << >>
    /\ UNCHANGED <<nextHandle, runtimeCall, ret, reconnection>>
    /\ CommitService(resetAllWakeLockRefCounts(St))

\* SensorService::sendEventsFromCache(connection): the connection writes its
\* cached events, wake of them wake-up events, to the socket
sendEventsFromCache(st, c, wake) ==
    LET s1 == Logged(st, Call("writeToSocketFromCache", 0, FALSE, c))
        s2 == [s1 EXCEPT !.mWakeLockRefCount[c] = @ + wake,
                         !.awaitingAck = IF wake > 0 THEN @ \cup {c} ELSE @]
    IN IF needsWakeLock(s2, c) THEN setWakeLockAcquiredLocked(s2, TRUE) ELSE s2

SendFromCache(c, wake) ==
    /\ c \in mActiveConnections
    /\ mWakeLockRefCount[c] + wake <= MaxRefCount
    /\ mSensorEventBuffer' = << >>
    /\ mMapFlushEventsToConnections' = << >>
    /\ ret' = NO_ERROR
    /\ Commit(sendEventsFromCache(St, c, wake))

SendFromCacheAny == \E c \in Conns, wake \in 0..1 : SendFromCache(c, wake)

EnableWake == \E c \in Conns : Enable(c, PROX, TRUE, TRUE, FALSE, TRUE)

DispatchWake == \E n \in 1..MaxBatch : Dispatch([i \in 1..n |-> DataEvent(PROX)])

InitAck == InitWith({PROX}, FALSE, FALSE)

NextAck ==
    \/ ReceiverCheck \/ ReceiverWoken \/ ReceiverTimeout \/ ReceiverReset
    \/ EnableWake \/ DispatchWake \/ SendFromCacheAny \/ DestroyAnyConn

\* the receiver thread runs, and a wait with a timeout that nothing
\* interrupts ends
FairReceiver ==
    /\ WF_vars(ReceiverCheck)
    /\ WF_vars(ReceiverWoken)
    /\ WF_vars(ReceiverTimeout)
    /\ WF_vars(ReceiverReset)

SpecAck == InitAck /\ [][NextAck]_vars /\ FairReceiver

CacheResent ==
    \E k \in 1..Len(calls) : calls[k].op = "writeToSocketFromCache"

\* the receiver never waits without a timeout on a held wakelock whose
\* wake() it has not seen
AcquisitionNotLost ==
    (receiver.pc = "wait" /\ receiver.timeout = NoTimeout /\ mWakeLockAcquired)
        => mLooperWake

\* the timeout resets every active connection and releases the wakelock
TimeoutResetsAll ==
    (receiver.pc = "timedout" /\ receiver'.pc = "check") =>
        /\ \A c \in mActiveConnections : mWakeLockRefCount'[c] = 0
        /\ ~mWakeLockAcquired'

\* the receiver waits 5 s exactly when it saw the wakelock held
WaitsWithTimeoutWhenHeld ==
    (receiver.pc = "check" /\ receiver'.pc = "wait") =>
        (receiver'.timeout = AckTimeoutMs <=> mWakeLockAcquired)

\* C17, as stated: with no acknowledgement ever, a held wakelock is eventually
\* released; the receiver waits with the 5 s timeout whenever it saw the
\* wakelock held, on timeout it zeroes the refcount of every active
\* connection and releases the wakelock, and an acquisition between its check
\* and its wait is not lost.
C17_WakeLockEventuallyReleased ==
    /\ mWakeLockAcquired ~> ~mWakeLockAcquired
    /\ []AcquisitionNotLost
    /\ [][TimeoutResetsAll /\ WaitsWithTimeoutWhenHeld]_vars

\* C17, amended: the same, the release only if from some point on no
\* connection resends from its cache: every resend of a connection that needs
\* the wakelock wakes the looper and the receiver starts its 5 s wait anew.
C17_WakeLockReleasedWhenLooperQuiet ==
    /\ (<>[]~CacheResent) => (mWakeLockAcquired ~> ~mWakeLockAcquired)
    /\ []AcquisitionNotLost
    /\ [][TimeoutResetsAll /\ WaitsWithTimeoutWhenHeld]_vars

\* the timeout has just released a wakelock that a connection still needed
C17_Witness ==
    /\ receiver.pc = "check"
    /\ \E k \in 1..Len(calls) : calls[k].op = "release_wake_lock"
    /\ mActiveConnections # {}
    /\ mSensorEventBuffer = << >>
    /\ mLooperWake = FALSE
    /\ \A c \in Conns : mWakeLockRefCount[c] = 0

(***************************************************************************)
(* Wakelock and sends within one dispatch cycle: an accelerometer and a    *)
(* wake-up proximity sensor, two clients that acknowledge or not.          *)
(***************************************************************************)
EnableWakeOrNot ==
    \E c \in Conns, h \in {ACCEL, PROX} : Enable(c, h, TRUE, TRUE, FALSE, TRUE)

DisableWakeOrNot == \E c \in Conns, h \in {ACCEL, PROX} : Disable(c, h)

InitWake == InitWith({ACCEL, PROX}, FALSE, FALSE)

NextWake ==
    EnableWakeOrNot \/ DisableWakeOrNot \/ DispatchAny \/ AckAny \/ AckTimeout

SpecWake == InitWake /\ [][NextWake]_vars

CallsOf(cs, op) == {k \in 1..Len(cs) : cs[k].op = op}

\* C18: in a dispatch cycle whose batch contains a wake-up event the wakelock
\* is held before the first sendEvents of the batch, any acquisition coming
\* before every send; a release made by the cycle comes after the sendEvents
\* of every connection of the snapshot, and only when none of them needs the
\* wakelock.
C18_AcquireBeforeSendReleaseAfter ==
    [][mSensorEventBuffer' # << >> =>
          LET acquires == CallsOf(calls', "acquire_wake_lock")
              sends == CallsOf(calls', "sendEvents")
              releases == CallsOf(calls', "release_wake_lock")
              wakeBatch == \E i \in 1..Len(mSensorEventBuffer') :
                               isWakeUpSensorEvent(St, mSensorEventBuffer'[i])
          IN /\ wakeBatch =>
                   /\ mWakeLockAcquired \/ acquires # {}
                   /\ \A a \in acquires, s \in sends : a < s
             /\ \A r \in releases :
                   /\ \A s \in sends : s < r
                   /\ {calls'[s].conn : s \in sends} = mActiveConnections
                   /\ \A c \in mActiveConnections : mWakeLockRefCount'[c] = 0]_vars

\* a cycle acquired the wakelock for a wake-up event, sent the batch to both
\* connections, none subscribed to the wake-up sensor, and released it
C18_Witness ==
    /\ mSensorEventBuffer # << >>
    /\ \E i \in 1..Len(mSensorEventBuffer) : mSensorEventBuffer[i] = DataEvent(PROX)
    /\ Len(calls) = 4
    /\ calls[1].op = "acquire_wake_lock"
    /\ calls[2].op = "sendEvents" /\ calls[3].op = "sendEvents"
    /\ calls[4].op = "release_wake_lock"
    /\ \E c \in Conns : sent[c] # << >>

\* C19: acquire_wake_lock and release_wake_lock alternate: the number of
\* acquire calls minus the number of release calls is 1 while the acquired
\* flag is set and 0 while it is not, whichever thread changed it.
C19_AcquireReleaseAlternate ==
    heldWakeLocks = (IF mWakeLockAcquired THEN 1 ELSE 0)

(***************************************************************************)
(* Locking.  handleDeviceReconnection takes mLock only inside the          *)
(* statement that copies the active connections; the ConnectionSafeAutolock*)
(* is a temporary of that statement.  From there to device.reconnect() the *)
(* dispatch thread holds no lock.                                          *)
(***************************************************************************)
\* the dispatch thread is in handleDeviceReconnection past the copy
DispatchHoldsNoLock == reconnection.pc \in {"handling", "releasing"}

\* the state the Sensor Registry, the Active Sensor Records, the wakelock
\* flag, the operating mode and the allowlist are kept in
GuardedByLock ==
    <<mSensors, mSensorFlags, mRecentEvent, mActiveSensors, mWakeLockAcquired,
      mCurrentOperatingMode, mAllowListedPackage>>

\* C20: the registry, the Active Sensor Records, the wakelock flag, the
\* operating mode and the allowlist are accessed only with mLock held: a
\* step the dispatch thread takes inside the HAL-reconnection handling, where
\* it holds no lock, leaves all of them unchanged.
C20_GuardedStateOnlyUnderLock ==
    [][(DispatchHoldsNoLock /\ reconnection' # reconnection)
           => UNCHANGED GuardedByLock]_vars

(***************************************************************************)
(* Access policy: SensorService::canAccessSensor.  The caller's UID, the   *)
(* package's target SDK (-1 when the package manager does not know it or   *)
(* the package is the ISensorManager descriptor), the sensor's type,       *)
(* required permission and app-op, the permission check and the op check   *)
(* are the inputs.                                                         *)
(***************************************************************************)
ANDROID_API_P == 28

SensorTypes == {"HEAD_TRACKER", "STEP_COUNTER", "STEP_DETECTOR", "other"}
CallerUids == {"AID_SYSTEM", "AID_AUDIOSERVER", "app"}
TargetSdkVersions == {-1, ANDROID_API_P, ANDROID_API_P + 1}
AppOpModes == {"MODE_ALLOWED", "MODE_IGNORED"}
OpCodes == {-1, 0}

isAudioServerOrSystemServerUid(uid) == uid \in {"AID_SYSTEM", "AID_AUDIOSERVER"}

\* Variant: a step sensor is allowed whatever the package's target SDK.
isLegacyStepClient_anySdk(type, targetSdkVersion) ==
    type \in {"STEP_COUNTER", "STEP_DETECTOR"}

\* the first branch of the if chain of canAccessSensor
isLegacyStepClient(type, targetSdkVersion) ==
    /\ targetSdkVersion > 0
    /\ targetSdkVersion <= ANDROID_API_P
    /\ type \in {"STEP_COUNTER", "STEP_DETECTOR"}

canAccessSensor(call) ==
    IF /\ call.type = "HEAD_TRACKER"
       /\ ~isAudioServerOrSystemServerUid(call.uid)
       /\ mHtRestricted
    THEN FALSE
    ELSE IF ~call.requiredPermission THEN TRUE
    ELSE IF isLegacyStepClient(call.type, call.targetSdkVersion) THEN TRUE
    ELSE IF call.uid = "AID_SYSTEM" THEN TRUE
    ELSE IF call.hasPermission
         THEN IF call.opCode >= 0 THEN call.appOpMode = "MODE_ALLOWED" ELSE TRUE
         ELSE FALSE

\* everything but the access policy's variables stays as it is
PolicyOnly ==
    /\ mSensorEventBuffer' = << >>
    /\ mMapFlushEventsToConnections' = << >>
    /\ UNCHANGED <<receiver, nextHandle, runtimeCall, ret, reconnection>>
    /\ CommitState(St)

CanAccess(call) ==
    /\ accessCall' = [call EXCEPT !.pc = "done", !.htRestricted = mHtRestricted,
                                  !.result = canAccessSensor(call)]
    /\ UNCHANGED <<mHtRestricted, rateCall, createCall, shellVars, directVars, ringVars, lateVars>>
    /\ PolicyOnly

AccessCalls ==
    [pc : {"idle"}, type : SensorTypes, uid : CallerUids, hasPermission : BOOLEAN,
     requiredPermission : BOOLEAN, opCode : OpCodes, appOpMode : AppOpModes,
     targetSdkVersion : TargetSdkVersions, result : {FALSE},
     htRestricted : {TRUE}]

CanAccessAny == \E call \in AccessCalls : CanAccess(call)

InitAccess ==
    /\ InitWith({ACCEL}, FALSE, FALSE)

\* restrict-ht and unrestrict-ht of the shell
SetHtRestricted(b) ==
    /\ mHtRestricted' = b
    /\ UNCHANGED <<accessCall, rateCall, createCall, shellVars, directVars, ringVars, lateVars>>
    /\ PolicyOnly

SetHtRestrictedAny == \E b \in BOOLEAN : SetHtRestricted(b)

NextAccess == CanAccessAny \/ SetHtRestrictedAny

SpecAccess == InitAccess /\ [][NextAccess]_vars

\* the rules of the access policy, applied in order; legacy is the reading of
\* "the package targets SDK <= P"
AccessRules(call, legacy) ==
    IF /\ call.type = "HEAD_TRACKER"
       /\ call.uid \notin {"AID_SYSTEM", "AID_AUDIOSERVER"}
       /\ call.htRestricted
    THEN FALSE
    ELSE IF ~call.requiredPermission THEN TRUE
    ELSE IF call.uid = "AID_SYSTEM" THEN TRUE
    ELSE IF call.type \in {"STEP_COUNTER", "STEP_DETECTOR"} /\ legacy THEN TRUE
    ELSE /\ call.hasPermission
         /\ call.opCode >= 0 => call.appOpMode = "MODE_ALLOWED"

\* C21, as stated: canAccessSensor returns the value of the rules applied in
\* order: head tracker denied outside system and audio server while
\* restricted, no required permission allowed, system UID allowed, a step
\* sensor allowed when the package's target SDK is <= P, else the permission
\* and, when an app-op is declared, MODE_ALLOWED.
C21_AccessByRules ==
    accessCall.pc = "done" =>
        accessCall.result =
            AccessRules(accessCall, accessCall.targetSdkVersion <= ANDROID_API_P)

\* C21, amended: the same, the step-sensor rule only for a package whose
\* target SDK is known (greater than 0) and <= P.
C21_AccessByRulesKnownSdk ==
    accessCall.pc = "done" =>
        accessCall.result =
            AccessRules(accessCall,
                        /\ accessCall.targetSdkVersion > 0
                        /\ accessCall.targetSdkVersion <= ANDROID_API_P)

\* a step counter was allowed to a legacy package that holds no permission
C21_Witness ==
    /\ accessCall.pc = "done"
    /\ accessCall.type = "STEP_COUNTER"
    /\ accessCall.requiredPermission
    /\ accessCall.uid = "app"
    /\ ~accessCall.hasPermission
    /\ accessCall.targetSdkVersion = ANDROID_API_P
    /\ accessCall.result

(***************************************************************************)
(* Rate capping: isRateCappedBasedOnPermission and                         *)
(* adjustSamplingPeriodBasedOnMicAndPermission.  The package's target SDK, *)
(* the HIGH_SAMPLING_RATE_SENSORS permission check, isPackageDebuggable    *)
(* and the microphone toggle are inputs.                                   *)
(***************************************************************************)
ANDROID_API_S == 31
SENSOR_SERVICE_CAPPED_SAMPLING_PERIOD_NS == 5000000
PERMISSION_DENIED == "PERMISSION_DENIED"
OK == NO_ERROR

RequestedPeriods ==
    {0, SENSOR_SERVICE_CAPPED_SAMPLING_PERIOD_NS - 1,
     SENSOR_SERVICE_CAPPED_SAMPLING_PERIOD_NS,
     SENSOR_SERVICE_CAPPED_SAMPLING_PERIOD_NS + 1}
RateTargetSdks == {-1, ANDROID_API_S - 1, ANDROID_API_S, ANDROID_API_S + 1}

isRateCappedBasedOnPermission(targetSdk, hasSamplingRatePermission) ==
    IF \/ targetSdk < ANDROID_API_S
       \/ (targetSdk >= ANDROID_API_S /\ hasSamplingRatePermission)
    THEN FALSE
    ELSE TRUE

\* Variant: the microphone clamp fails for a debuggable package as the
\* permission clamp does.
micClampStatus_likePermission(debuggable) ==
    IF debuggable THEN PERMISSION_DENIED ELSE OK

\* the status returned after the microphone clamp
micClampStatus(debuggable) == OK

\* the period the call leaves in *requestedPeriodNs, and its status
adjustSamplingPeriodBasedOnMicAndPermission(call) ==
    IF call.requestedPeriodNs >= SENSOR_SERVICE_CAPPED_SAMPLING_PERIOD_NS
    THEN [periodNs |-> call.requestedPeriodNs, status |-> OK]
    ELSE IF isRateCappedBasedOnPermission(call.targetSdk,
                                          call.hasSamplingRatePermission)
    THEN [periodNs |-> SENSOR_SERVICE_CAPPED_SAMPLING_PERIOD_NS,
          status |-> IF call.debuggable THEN PERMISSION_DENIED ELSE OK]
    ELSE IF call.micPrivacy
    THEN [periodNs |-> SENSOR_SERVICE_CAPPED_SAMPLING_PERIOD_NS,
          status |-> micClampStatus(call.debuggable)]
    ELSE [periodNs |-> call.requestedPeriodNs, status |-> OK]

AdjustSamplingPeriod(call) ==
    /\ LET r == adjustSamplingPeriodBasedOnMicAndPermission(call)
       IN rateCall' = [call EXCEPT !.pc = "done", !.periodNs = r.periodNs,
                                   !.status = r.status]
    /\ UNCHANGED <<mHtRestricted, accessCall, createCall, shellVars, directVars, ringVars, lateVars>>
    /\ PolicyOnly

RateCalls ==
    [pc : {"idle"}, requestedPeriodNs : RequestedPeriods, targetSdk : RateTargetSdks,
     hasSamplingRatePermission : BOOLEAN, debuggable : BOOLEAN,
     micPrivacy : BOOLEAN, periodNs : {0}, status : {OK}]

AdjustSamplingPeriodAny == \E call \in RateCalls : AdjustSamplingPeriod(call)

InitRate == InitWith({ACCEL}, FALSE, FALSE)

NextRate == AdjustSamplingPeriodAny

SpecRate == InitRate /\ [][NextRate]_vars

RateCappedCall == isRateCappedBasedOnPermission(rateCall.targetSdk,
                                                rateCall.hasSamplingRatePermission)

BelowCap == rateCall.requestedPeriodNs < SENSOR_SERVICE_CAPPED_SAMPLING_PERIOD_NS

\* a period at or above the cap is unchanged with OK; so is a period below the
\* cap when neither clamp applies; a clamped period is the cap
PeriodAdjusted ==
    /\ ~BelowCap =>
           rateCall.periodNs = rateCall.requestedPeriodNs /\ rateCall.status = OK
    /\ BelowCap /\ (RateCappedCall \/ rateCall.micPrivacy) =>
           rateCall.periodNs = SENSOR_SERVICE_CAPPED_SAMPLING_PERIOD_NS
    /\ BelowCap /\ ~RateCappedCall /\ ~rateCall.micPrivacy =>
           rateCall.periodNs = rateCall.requestedPeriodNs /\ rateCall.status = OK

\* C22, as stated: a period at or above the cap is unchanged with OK; below
\* the cap it is raised to the cap when the package is rate-capped by
\* permission and also when the microphone toggle is engaged, and in both
\* cases the status is PermissionDenied for a debuggable package and OK
\* otherwise; when neither clamp applies the period is unchanged.
C22_ClampAndStatus ==
    rateCall.pc = "done" =>
        /\ PeriodAdjusted
        /\ BelowCap /\ (RateCappedCall \/ rateCall.micPrivacy) =>
               rateCall.status =
                   (IF rateCall.debuggable THEN PERMISSION_DENIED ELSE OK)

\* C22, amended: the same, but PermissionDenied is returned only for the
\* permission clamp of a debuggable package; the microphone clamp of a package
\* that is not rate-capped by permission returns OK, debuggable or not.
C22_ClampAndStatusByPermission ==
    rateCall.pc = "done" =>
        /\ PeriodAdjusted
        /\ BelowCap /\ RateCappedCall =>
               rateCall.status =
                   (IF rateCall.debuggable THEN PERMISSION_DENIED ELSE OK)
        /\ BelowCap /\ ~RateCappedCall /\ rateCall.micPrivacy =>
               rateCall.status = OK

\* the microphone toggle clamped the request of a debuggable package that
\* holds the high-sampling-rate permission
C22_Witness ==
    /\ rateCall.pc = "done"
    /\ BelowCap /\ ~RateCappedCall /\ rateCall.micPrivacy /\ rateCall.debuggable
    /\ rateCall.periodNs = SENSOR_SERVICE_CAPPED_SAMPLING_PERIOD_NS
    /\ rateCall.status = OK

(***************************************************************************)
(* SensorService::createSensorEventConnection.  The new connection is one  *)
(* of Conns, with the package name it was created for; a connection        *)
(* created for an injection mode is put into the connection holder.        *)
(***************************************************************************)
\* a requested mode outside the Mode enumeration
INVALID_MODE == "INVALID_MODE"
RequestedModes == Modes \cup {INVALID_MODE}

\* Variant: a DATA_INJECTION client is created whatever the package.
createAllowed_anyPackage(st, requestedMode, packageName) ==
    /\ requestedMode = NORMAL \/ isInjectionMode(requestedMode)
    /\ requestedMode = DATA_INJECTION =>
           st.mCurrentOperatingMode = DATA_INJECTION

\* the checks of createSensorEventConnection before it creates the connection
createAllowed(st, requestedMode, packageName) ==
    /\ requestedMode = NORMAL \/ isInjectionMode(requestedMode)
    /\ requestedMode = DATA_INJECTION =>
           /\ st.mCurrentOperatingMode = DATA_INJECTION
           /\ isAllowListedPackage(st.mAllowListedPackage, packageName)

createSensorEventConnection(st, c, requestedMode) ==
    IF ~createAllowed(st, requestedMode, getPackageName(c))
    THEN [result |-> FALSE, st |-> st]
    ELSE [result |-> TRUE,
          st |-> IF isInjectionMode(requestedMode)
                 THEN addEventConnectionIfNotPresent(st, c) ELSE st]

CreateEventConnection(c, requestedMode) ==
    LET r == createSensorEventConnection(St, c, requestedMode)
    IN /\ createCall' = [pc |-> "done", result |-> r.result, conn |-> c,
                         requestedMode |-> requestedMode, parity |-> 1 - createCall.parity]
       /\ UNCHANGED <<mHtRestricted, accessCall, rateCall, shellVars, directVars, ringVars, lateVars>>
       /\ mSensorEventBuffer' = << >>
       /\ mMapFlushEventsToConnections' = << >>
       /\ UNCHANGED <<receiver, nextHandle, runtimeCall, ret, reconnection>>
       /\ CommitState(r.st)

CreateEventConnectionAny ==
    \E c \in Conns, requestedMode \in RequestedModes :
        CreateEventConnection(c, requestedMode)

ChangeModeCreate ==
    \E target \in {NORMAL, RESTRICTED, DATA_INJECTION}, arg \in {PkgOther, PkgTest} :
        ChangeMode(target, TRUE, arg, TRUE)

InitCreate == InitWith({ACCEL}, FALSE, FALSE)

NextCreate == CreateEventConnectionAny \/ ChangeModeCreate \/ DestroyAnyConn

SpecCreate == InitCreate /\ [][NextCreate]_vars

\* the step is a createSensorEventConnection call
CreateStep == createCall'.parity # createCall.parity

\* C23: a createSensorEventConnection call that requests DATA_INJECTION
\* returns a connection only if the service is in DATA_INJECTION mode and the
\* caller's package is allowlisted, and then it does return one; a call that
\* returns no connection adds nothing to the connection holder; a requested
\* mode that is neither NORMAL nor an injection mode is rejected.
C23_InjectionClientNeedsModeAndAllowlist ==
    [][CreateStep =>
         /\ createCall'.requestedMode = DATA_INJECTION /\ createCall'.result =>
                /\ mCurrentOperatingMode = DATA_INJECTION
                /\ contains(getPackageName(createCall'.conn), mAllowListedPackage)
         /\ createCall'.requestedMode = DATA_INJECTION
              /\ mCurrentOperatingMode = DATA_INJECTION
              /\ contains(getPackageName(createCall'.conn), mAllowListedPackage)
              => createCall'.result
         /\ ~createCall'.result =>
                UNCHANGED <<mActiveConnections, mDirectConnections>>
         /\ createCall'.requestedMode \notin
                {NORMAL, DATA_INJECTION, REPLAY_DATA_INJECTION,
                 HAL_BYPASS_REPLAY_DATA_INJECTION} => ~createCall'.result]_vars

\* in DATA_INJECTION mode with "com.test" allowlisted, B (com.test.helper) got
\* an injection connection and A (com.other) was refused
C23_Witness ==
    /\ mCurrentOperatingMode = DATA_INJECTION
    /\ mAllowListedPackage = PkgTest
    /\ createCall.pc = "done"
    /\ createCall.conn = "A"
    /\ createCall.requestedMode = DATA_INJECTION
    /\ ~createCall.result
    /\ mActiveConnections = {"B"}

(***************************************************************************)
(* The shell: SensorService::shellCommand and its handlers.  Arguments are *)
(* the strings of the command line; a status is the integer the binder     *)
(* call returns.                                                           *)
(***************************************************************************)
BAD_INDEX == "BAD_INDEX"

\* the values of the status names (utils/Errors.h)
statusValue(name) ==
    CASE name = NO_ERROR -> 0
      [] name = PERMISSION_DENIED -> -1
      [] name = BAD_VALUE -> -22
      [] name = BAD_INDEX -> -75

\* packages the package manager knows, each owning one direct connection
ShellPackages == {"com.d1"}

\* PermissionController::getPackageUid: the app id, 0 for an unknown package
getPackageUid(packageName) ==
    IF packageName = "com.d1" THEN "D1" ELSE "none"

\* atoi: the leading integer of the string, 0 when there is none
atoi(s) ==
    CASE s = "0" -> 0
      [] s = "1" -> 1
      [] s = "-1" -> -1
      [] OTHER -> 0

\* dprintf returns the number of bytes written
dprintf(text) ==
    CASE text = "active\n" -> 7
      [] text = "idle\n" -> 5

multiuser_get_uid(userId, appId) == <<userId, appId>>

getUidForPackage(packageName, userId) ==
    LET appId == getPackageUid(packageName)
    IN IF appId = "none" THEN [uid |-> <<0, "none">>, status |-> BAD_VALUE]
       ELSE IF userId < 0 THEN [uid |-> <<0, appId>>, status |-> BAD_VALUE]
       ELSE [uid |-> multiuser_get_uid(userId, appId), status |-> NO_ERROR]

\* UidPolicy::updateOverrideUid, with the onUidStateChanged it makes when the
\* uid's state changes
updateOverrideUid(st, uid, active, insert) ==
    LET wasActive == isUidActiveLocked(st.mOverrideUids, st.mActiveUids, uid)
        erased == [u \in DOMAIN st.mOverrideUids \ {uid} |-> st.mOverrideUids[u]]
        overrides == IF insert
                     THEN [u \in DOMAIN erased \cup {uid} |->
                               IF u = uid THEN active ELSE erased[u]]
                     ELSE erased
        isActive == isUidActiveLocked(overrides, st.mActiveUids, uid)
        s1 == [st EXCEPT !.mOverrideUids = overrides]
    IN IF wasActive # isActive /\ uid[1] = 0
       THEN onUidStateChanged(s1, uid[2],
                              IF isActive THEN UID_STATE_ACTIVE ELSE UID_STATE_IDLE)
       ELSE s1

addOverrideUid(st, uid, active) == updateOverrideUid(st, uid, active, TRUE)

removeOverrideUid(st, uid) == updateOverrideUid(st, uid, FALSE, FALSE)

\* the fifth argument of set-uid-state is read only after "--user"
setUidStateUserId(args) ==
    IF Len(args) = 5 /\ args[4] = "--user" THEN atoi(args[5]) ELSE 0

handleSetUidState(st, args) ==
    IF ~(Len(args) = 3 \/ Len(args) = 5) THEN [st |-> st, status |-> statusValue(BAD_VALUE)]
    ELSE IF args[3] \notin {"active", "idle"}
    THEN [st |-> st, status |-> statusValue(BAD_VALUE)]
    ELSE LET active == args[3] = "active"
             userId == setUidStateUserId(args)
             r == getUidForPackage(args[2], userId)
         IN IF r.status # NO_ERROR THEN [st |-> st, status |-> statusValue(BAD_VALUE)]
            ELSE [st |-> addOverrideUid(st, r.uid, active),
                  status |-> statusValue(NO_ERROR)]

handleResetUidState(st, args) ==
    IF ~(Len(args) = 2 \/ Len(args) = 4) THEN [st |-> st, status |-> statusValue(BAD_VALUE)]
    ELSE LET userId == IF Len(args) = 4 /\ args[3] = "--user" THEN atoi(args[4]) ELSE 0
             r == getUidForPackage(args[2], userId)
         IN IF r.status = BAD_VALUE THEN [st |-> st, status |-> statusValue(BAD_VALUE)]
            ELSE [st |-> removeOverrideUid(st, r.uid),
                  status |-> statusValue(NO_ERROR)]

handleGetUidState(st, args) ==
    IF ~(Len(args) = 2 \/ Len(args) = 4) THEN [st |-> st, status |-> statusValue(BAD_VALUE)]
    ELSE LET userId == IF Len(args) = 4 /\ args[3] = "--user" THEN atoi(args[4]) ELSE 0
             r == getUidForPackage(args[2], userId)
         IN IF r.status = BAD_VALUE THEN [st |-> st, status |-> statusValue(BAD_VALUE)]
            ELSE IF isUidActiveLocked(st.mOverrideUids, st.mActiveUids, r.uid)
            THEN [st |-> st, status |-> dprintf("active\n")]
            ELSE [st |-> st, status |-> dprintf("idle\n")]

\* shellCommand: the state it leaves, the head-tracker restriction it leaves
\* and the status it returns
shellCommand(st, htRestricted, call) ==
    LET args == call.args
        same(status) == [st |-> st, status |-> statusValue(status), ht |-> htRestricted]
        handled(r) == [st |-> r.st, status |-> r.status, ht |-> htRestricted]
    IN IF ~call.hasPermission THEN same(PERMISSION_DENIED)
       ELSE IF Len(args) = 0 THEN same(BAD_INDEX)
       ELSE IF ~call.fdsValid THEN same(BAD_VALUE)
       ELSE IF args[1] = "set-uid-state" THEN handled(handleSetUidState(st, args))
       ELSE IF args[1] = "reset-uid-state" THEN handled(handleResetUidState(st, args))
       ELSE IF args[1] = "get-uid-state" THEN handled(handleGetUidState(st, args))
       ELSE IF args[1] = "unrestrict-ht"
       THEN [st |-> st, status |-> statusValue(NO_ERROR), ht |-> FALSE]
       ELSE IF args[1] = "restrict-ht"
       THEN [st |-> st, status |-> statusValue(NO_ERROR), ht |-> TRUE]
       ELSE IF Len(args) = 1 /\ args[1] = "help" THEN same(NO_ERROR)
       ELSE same(BAD_VALUE)

ShellCommand(call) ==
    /\ shellCall.pc = "idle"
    /\ LET r == shellCommand(St, mHtRestricted, call)
       IN /\ shellCall' = [call EXCEPT !.pc = "done", !.status = r.status]
          /\ mHtRestricted' = r.ht
          /\ mOverrideUids' = r.st.mOverrideUids
          /\ CommitState(r.st)
    /\ mSensorEventBuffer' = << >>
    /\ mMapFlushEventsToConnections' = << >>
    /\ UNCHANGED <<receiver, nextHandle, runtimeCall, ret, reconnection>>
    /\ UNCHANGED <<accessCall, rateCall, createCall, directVars, ringVars, lateVars>>

\* the binder call returns
ShellReturn ==
    /\ shellCall.pc = "done"
    /\ shellCall' = ShellIdle
    /\ UNCHANGED <<mHtRestricted, mOverrideUids, accessCall, rateCall, createCall,
                   directVars, ringVars, lateVars>>
    /\ PolicyOnly

\* command lines: each command alone and with a trailing word, and the uid
\* commands with a package, a state, an option and a user id
UidCommands == {"get-uid-state", "reset-uid-state", "set-uid-state"}
PackageArgs == {"com.d1", "com.unknown"}
UserArgs == {"-1", "1", "x"}
OptionTails == {<<"--foo", "1">>} \cup {<<"--user", u>> : u \in UserArgs}

ShellArgs ==
    {<< >>}
    \cup {<<c>> : c \in UidCommands \cup {"bogus", "help", "restrict-ht", "unrestrict-ht"}}
    \cup {<<c, "extra">> : c \in {"bogus", "help", "restrict-ht", "unrestrict-ht"}}
    \cup {<<c, p>> : c \in UidCommands, p \in PackageArgs}
    \cup {<<c, p, s>> : c \in UidCommands, p \in PackageArgs,
                        s \in {"active", "bogus", "idle"}}
    \cup {<<c, "com.d1">> \o t : c \in UidCommands, t \in OptionTails}
    \cup {<<"set-uid-state", "com.d1", s>> \o t : s \in {"active", "idle"},
                                                  t \in OptionTails}

ShellCalls ==
    {[pc |-> "idle", hasPermission |-> p, status |-> 0, args |-> a, fdsValid |-> f] :
        a \in ShellArgs, p \in BOOLEAN, f \in BOOLEAN}

ShellCommandAny == \E call \in ShellCalls : ShellCommand(call)

InitShell == InitWith({ACCEL}, FALSE, FALSE)

NextShell ==
    \/ ShellCommandAny \/ ShellReturn
    \/ CreateDirect("D1") \/ UidActive("D1") \/ UidIdle("D1")
    \/ \E rate \in 0..MaxRate : ConfigureChannel("D1", rate)

SpecShell == InitShell /\ [][NextShell]_vars

\* the step is a shellCommand call
ShellStep == shellCall.pc = "idle" /\ shellCall'.pc = "done"

\* the command line follows the grammar of the help text and of the two
\* head-tracker commands
IsUserId(s) == s \in {"-1", "0", "1"}

WellFormedTail(t) ==
    \/ t = << >>
    \/ Len(t) = 2 /\ t[1] = "--user" /\ IsUserId(t[2])

WellFormedArgs(args) ==
    /\ Len(args) > 0
    /\ \/ args[1] \in {"help", "restrict-ht", "unrestrict-ht"} /\ Len(args) = 1
       \/ /\ args[1] \in {"get-uid-state", "reset-uid-state"}
          /\ Len(args) >= 2 /\ WellFormedTail(SubSeq(args, 3, Len(args)))
       \/ /\ args[1] = "set-uid-state"
          /\ Len(args) >= 3 /\ args[3] \in {"active", "idle"}
          /\ WellFormedTail(SubSeq(args, 4, Len(args)))

\* the user id the command line names
NamedUserId(args) ==
    LET n == Len(args) IN IF n >= 4 /\ args[n - 1] = "--user" THEN atoi(args[n]) ELSE 0

\* the command has what it needs to succeed
ShellCanSucceed(call) ==
    /\ call.hasPermission /\ call.fdsValid /\ WellFormedArgs(call.args)
    /\ call.args[1] \in UidCommands =>
           call.args[2] \in ShellPackages /\ NamedUserId(call.args) >= 0

\* C24: a shell command returns 0 when it succeeds and a non-zero status when
\* the caller lacks MANAGE_SENSORS, when no arguments are given, or when the
\* arguments do not parse; a command that returns non-zero changes no UID
\* override and not the head-tracker restriction.
C24_ExitCodes ==
    [][ShellStep =>
         /\ ShellCanSucceed(shellCall') => shellCall'.status = 0
         /\ (~shellCall'.hasPermission \/ ~WellFormedArgs(shellCall'.args))
                => shellCall'.status # 0
         /\ shellCall'.status # 0 =>
                UNCHANGED <<mOverrideUids, mHtRestricted>>]_vars

(***************************************************************************)
(* HAL failures in enable: an on-change wake-up sensor and the virtual      *)
(* sensor, two clients, batch and activate failing.                        *)
(***************************************************************************)
InitUnwind == InitWith({PROX, GRAVITY}, FALSE, FALSE)

\* enable of a registered sensor or of an unknown handle, every HAL outcome
EnableUnwind ==
    \E c \in Conns, h \in {PROX, GRAVITY, NOSENSOR},
       batchOk \in BOOLEAN, flushOk \in BOOLEAN, activateOk \in BOOLEAN :
        Enable(c, h, TRUE, batchOk, flushOk, activateOk)

DisableUnwind == \E c \in Conns, h \in {PROX, GRAVITY} : Disable(c, h)

NextUnwind == EnableUnwind \/ DisableUnwind \/ DestroyAny

SpecUnwind == InitUnwind /\ [][NextUnwind]_vars

\* the step is enable(c, h) reaching the HAL and batch or activate failing
EnableFailsInHal(c, h) ==
    /\ EnablePassesGates(c, h, TRUE)
    /\ \E batchOk \in BOOLEAN, flushOk \in BOOLEAN, activateOk \in BOOLEAN :
           /\ ~(batchOk /\ activateOk)
           /\ Enable(c, h, TRUE, batchOk, flushOk, activateOk)

\* C25: when hal.batch or hal.activate fails during enable(C, h), the call
\* returns that error and on return C is not subscribed to h and is not in
\* h's record; if no other connection is subscribed to h there is no record
\* of h and h is not an active virtual sensor; and C is in the connection
\* holder only if it still has a subscription.
C25_HalFailureUnwinds ==
    [][\A c \in Conns, h \in Handles :
         EnableFailsInHal(c, h) =>
             /\ ret' = HAL_ERROR
             /\ h \notin mSensorInfo'[c]
             /\ h \in DOMAIN mActiveSensors' => c \notin mActiveSensors'[h].mConnections
             /\ (\A o \in Conns \ {c} : h \notin mSensorInfo'[o]) =>
                    /\ h \notin DOMAIN mActiveSensors'
                    /\ h \notin mActiveVirtualSensors'
             /\ c \in mActiveConnections' <=> mSensorInfo'[c] # {}]_vars

\* enable of the virtual sensor by A has just failed in the HAL; A keeps its
\* proximity subscription and its place in the holder, and B keeps the
\* record of the virtual sensor alive
C25_Witness ==
    /\ ret = HAL_ERROR
    /\ mSensorInfo["A"] = {PROX}
    /\ "A" \in mActiveConnections
    /\ GRAVITY \in mSensorInfo["B"]
    /\ GRAVITY \in DOMAIN mActiveSensors
    /\ GRAVITY \in mActiveVirtualSensors

(***************************************************************************)
(* Destroying an event connection: the accelerometer and a wake-up sensor, *)
(* two clients, events dispatched and acknowledged.                        *)
(***************************************************************************)
InitDestroy == InitWith({ACCEL, PROX}, FALSE, FALSE)

NextDestroy ==
    EnableWakeOrNot \/ DisableWakeOrNot \/ DispatchAny \/ AckAny \/ DestroyAny

SpecDestroy == InitDestroy /\ [][NextDestroy]_vars

\* s and t agree on what a destroy leaves behind: subscriptions, records,
\* the holder, the wakelock and the HAL adapter's clients
SameDestroyedState(s, t) ==
    /\ \A c \in Conns : s.mSensorInfo[c] = t.mSensorInfo[c]
    /\ DOMAIN s.mActiveSensors = DOMAIN t.mActiveSensors
    /\ \A h \in DOMAIN s.mActiveSensors : s.mActiveSensors[h] = t.mActiveSensors[h]
    /\ s.mActiveVirtualSensors = t.mActiveVirtualSensors
    /\ s.mActiveConnections = t.mActiveConnections
    /\ s.mWakeLockAcquired = t.mWakeLockAcquired
    /\ s.heldWakeLocks = t.heldWakeLocks
    /\ \A h \in Handles : s.halClients[h] = t.halClients[h]

\* c is not subscribed, in no record and not in the holder, and no record is
\* empty
Destroyed(st, c) ==
    /\ st.mSensorInfo[c] = {}
    /\ \A h \in DOMAIN st.mActiveSensors :
           /\ c \notin st.mActiveSensors[h].mConnections
           /\ st.mActiveSensors[h].mConnections # {}
    /\ c \notin st.mActiveConnections

\* a second cleanupConnection(c), made on the state the first one left,
\* whether or not the connection object still counts unacknowledged events
DestroyTwiceChangesNothing(c) ==
    LET s1 == cleanupConnection(St, c)
        again == [s1 EXCEPT !.mWakeLockRefCount[c] = mWakeLockRefCount[c]]
    IN /\ SameDestroyedState(cleanupConnection(s1, c), s1)
       /\ SameDestroyedState(cleanupConnection(again, c), s1)

\* C26: destroying event connection C leaves C with no subscription, in no
\* Active Sensor Record (a record that becomes empty is destroyed) and not in
\* the connection holder, and releases the wakelock if C was the only
\* connection still needing it; destroying C a second time changes none of
\* this state.
C26_DestroyIdempotent ==
    /\ [](\A c \in Conns : DestroyTwiceChangesNothing(c))
    /\ [][\A c \in Conns :
            Destroy(c) =>
                /\ Destroyed(St, c)'
                /\ (/\ mWakeLockAcquired
                    /\ needsWakeLock(St, c)
                    /\ \A o \in Conns \ {c} : ~needsWakeLock(St, o))
                       => ~mWakeLockAcquired' /\ heldWakeLocks' = heldWakeLocks - 1]_vars

\* B's destroy has just released the wakelock it alone needed, while A is
\* still subscribed
C26_Witness ==
    /\ Len(calls) = 1 /\ calls[1].op = "release_wake_lock"
    /\ ~mWakeLockAcquired
    /\ mSensorInfo["B"] = {} /\ "B" \notin mActiveConnections
    /\ mSensorInfo["A"] = {ACCEL, PROX} /\ "A" \in mActiveConnections
    /\ mActiveSensors[PROX].mConnections = {"A"}
    /\ mWakeLockRefCount = [c \in Conns |-> 0]

(***************************************************************************)
(* SensorService::createSensorDirectConnection.  A request names a device, *)
(* a declared size, a memory type, a format and a resource handle; the     *)
(* resource is null or holds numFds descriptors of a shared-memory region. *)
(***************************************************************************)
SENSOR_DIRECT_FMT_SENSORS_EVENT == "SENSOR_DIRECT_FMT_SENSORS_EVENT"
SENSOR_DIRECT_MEM_TYPE_ASHMEM == "SENSOR_DIRECT_MEM_TYPE_ASHMEM"
SENSOR_DIRECT_MEM_TYPE_GRALLOC == "SENSOR_DIRECT_MEM_TYPE_GRALLOC"
DEFAULT_DEVICE_ID == "DEFAULT_DEVICE_ID"

\* the devices with a runtime sensor callback, and one without
mRuntimeSensorCallbacks == {"device1"}
DeviceIds == {DEFAULT_DEVICE_ID, "device1", "device2"}

MemIds == {"M1", "M2"}
DeclaredSizes == {1, 2}
\* ashmem_get_size_region: the size of the region, negative on error
RegionSizes == {-1, 1, 2}

Resources ==
    {NullHandle} \cup
    [mem : MemIds, numFds : {0, 1}, valid : BOOLEAN, regionSize : RegionSizes]

\* SensorDirectConnection::isEquivalent, for the connections of the holder
isEquivalent(mems, d, resource) == mems[d] = resource.mem

\* Variant: the declared size is not compared with the region's size.
ashmemSizeConsistent_unchecked(regionSize, size) == TRUE

\* size2 < static_cast<int64_t>(size) turns the request away
ashmemSizeConsistent(regionSize, size) == ~(regionSize < size)

\* the check specific to the memory type
memTypeCheck(type, resource, size) ==
    IF type = SENSOR_DIRECT_MEM_TYPE_ASHMEM
    THEN /\ ~(resource.numFds < 1)
         /\ resource.valid
         /\ ashmemSizeConsistent(resource.regionSize, size)
    ELSE type = SENSOR_DIRECT_MEM_TYPE_GRALLOC

\* the checks made before the resource is cloned
directChecks(st, mems, req) ==
    /\ ~st.mSensorPrivacyEnabled
    /\ req.resource # NullHandle
    /\ req.format = SENSOR_DIRECT_FMT_SENSORS_EVENT
    /\ \A d \in st.mDirectConnections : ~isEquivalent(mems, d, req.resource)
    /\ memTypeCheck(req.type, req.resource, req.size)

\* d: the connection object the call creates; cloneOk: native_handle_clone
\* succeeds; channel: what the registration returns
createSensorDirectConnection(st, mems, d, req, cloneOk, channel) ==
    LET none == [result |-> NoConn, st |-> st, registered |-> "none", mems |-> mems,
                 channelHandle |-> 0, cloned |-> FALSE, closed |-> FALSE]
    IN IF ~directChecks(st, mems, req) THEN none
       ELSE IF ~cloneOk THEN none
       ELSE LET registered ==
                    IF req.deviceId = DEFAULT_DEVICE_ID THEN "registerDirectChannel"
                    ELSE IF req.deviceId \in mRuntimeSensorCallbacks
                    THEN "onDirectChannelCreated" ELSE "none"
                channelHandle == IF registered = "none" THEN 0 ELSE channel
            IN IF channelHandle <= 0
               THEN [none EXCEPT !.registered = registered,
                                 !.channelHandle = channelHandle,
                                 !.cloned = TRUE, !.closed = TRUE]
               ELSE [result |-> d,
                     st |-> [st EXCEPT !.mDirectConnections = @ \cup {d}],
                     registered |-> registered, mems |-> [mems EXCEPT ![d] = req.resource.mem],
                     channelHandle |-> channelHandle,
                     cloned |-> TRUE, closed |-> FALSE]

DirectRequests ==
    [deviceId : DeviceIds, size : DeclaredSizes,
     type : {SENSOR_DIRECT_MEM_TYPE_ASHMEM, SENSOR_DIRECT_MEM_TYPE_GRALLOC, "other"},
     format : {SENSOR_DIRECT_FMT_SENSORS_EVENT, "other"},
     resource : Resources]

CreateSensorDirectConnection(d, req, cloneOk, channel) ==
    /\ directCall.pc = "idle"
    /\ d \notin mDirectConnections
    /\ LET r == createSensorDirectConnection(St, directMem, d, req, cloneOk, channel)
       IN /\ directCall' = [pc |-> "done", result |-> r.result, registered |-> r.registered,
                            req |-> req,
                            channelHandle |-> r.channelHandle,
                            cloned |-> r.cloned, closed |-> r.closed]
          /\ directMem' = r.mems
          /\ CommitState(r.st)
    /\ mSensorEventBuffer' = << >>
    /\ mMapFlushEventsToConnections' = << >>
    /\ UNCHANGED <<receiver, nextHandle, runtimeCall, ret, reconnection>>
    /\ UNCHANGED <<mHtRestricted, accessCall, rateCall, createCall, shellVars,
                   ringVars, lateVars>>

CreateSensorDirectConnectionAny ==
    \E d \in Directs, req \in DirectRequests, cloneOk \in BOOLEAN,
       channel \in {-1, 0, 1} :
        CreateSensorDirectConnection(d, req, cloneOk, channel)

\* the binder call returns
DirectReturn ==
    /\ directCall.pc = "done"
    /\ directCall' = DirectIdle
    /\ UNCHANGED <<mHtRestricted, accessCall, rateCall, createCall, shellVars,
                   directMem, ringVars, lateVars>>
    /\ PolicyOnly

\* SensorService::cleanupConnection(SensorDirectConnection*)
DestroyDirect(d) ==
    /\ d \in mDirectConnections
    /\ directMem' = [directMem EXCEPT ![d] = NoMem]
    /\ mSensorEventBuffer' = << >>
    /\ mMapFlushEventsToConnections' = << >>
    /\ UNCHANGED <<receiver, nextHandle, runtimeCall, ret, reconnection>>
    /\ UNCHANGED <<mHtRestricted, accessCall, rateCall, createCall, shellVars,
                   directCall, ringVars, lateVars>>
    /\ CommitState([St EXCEPT !.mDirectConnections = @ \ {d}])

DestroyDirectAny == \E d \in Directs : DestroyDirect(d)

InitDirect == InitWith({ACCEL}, FALSE, FALSE)

NextDirect ==
    CreateSensorDirectConnectionAny \/ DirectReturn \/ DestroyDirectAny \/ PrivacyAny

SpecDirect == InitDirect /\ [][NextDirect]_vars

\* the step is a createSensorDirectConnection call
DirectStep == directCall.pc = "idle" /\ directCall'.pc = "done"

\* the checks the request has to pass, in the state the call is made in
DirectChecksPass(req) ==
    /\ ~mSensorPrivacyEnabled
    /\ req.resource # NullHandle
    /\ req.format = SENSOR_DIRECT_FMT_SENSORS_EVENT
    /\ \A d \in mDirectConnections : directMem[d] # req.resource.mem
    /\ req.type = SENSOR_DIRECT_MEM_TYPE_ASHMEM =>
           req.resource.valid /\ req.resource.regionSize >= req.size

\* C27: createSensorDirectConnection registers a channel, with the HAL for
\* the default device and with the device's runtime callback otherwise, only
\* after these checks pass: sensor privacy is off, the resource handle is not
\* null, the format is the fixed event layout, no direct connection of the
\* holder uses equivalent memory, and an ashmem region is valid and at least
\* as large as the declared size.  A direct connection is added to the holder
\* iff the registration returned a channel handle greater than zero; on every
\* failure path nothing is added and the cloned handle is closed.
C27_DirectChannelChecked ==
    [][DirectStep =>
         LET call == directCall'
             added == mDirectConnections' \ mDirectConnections
         IN /\ call.registered # "none" =>
                   /\ DirectChecksPass(call.req)
                   /\ call.registered =
                          (IF call.req.deviceId = DEFAULT_DEVICE_ID
                           THEN "registerDirectChannel" ELSE "onDirectChannelCreated")
            /\ mDirectConnections \subseteq mDirectConnections'
            /\ added # {} <=> call.registered # "none" /\ call.channelHandle > 0
            /\ added = (IF call.result = NoConn THEN {} ELSE {call.result})
            /\ call.result = NoConn =>
                   /\ UNCHANGED <<mDirectConnections, directMem>>
                   /\ call.cloned => call.closed
            /\ call.result # NoConn => call.cloned /\ ~call.closed]_vars

\* a request for memory M1 on a device with a runtime callback has just been
\* granted while the other direct connection holds M2
C27_Witness ==
    /\ directCall.pc = "done"
    /\ directCall.result = "D2"
    /\ directCall.registered = "onDirectChannelCreated"
    /\ directCall.req.type = SENSOR_DIRECT_MEM_TYPE_ASHMEM
    /\ directCall.req.resource.regionSize = directCall.req.size
    /\ mDirectConnections = {"D1", "D2"}
    /\ directMem = [d \in Directs |-> IF d = "D1" THEN "M2" ELSE "M1"]

(***************************************************************************)
(* The registration ring: the entry enable and disable write before they   *)
(* return, and the loop of dump that prints the ring.  The ring is read    *)
(* only by dump; the specifications above leave it out, and                *)
(* EnableRegistered and DisableRegistered are enable and disable with it.  *)
(***************************************************************************)
MaxRegistrations == 5

SensorRegistrationInfo(handle, packageName, activated, result) ==
    [handle |-> handle, result |-> result, packageName |-> packageName,
     activated |-> activated]

\* an entry that enable or disable wrote is never a sentinel
isSentinel(info) == info = Sentinel

\* Variant: the index is not wrapped.
advanceRegIndex_unwrapped(index) == index + 1

advanceRegIndex(index) == (index + 1) % SENSOR_REGISTRATIONS_BUF_SIZE

\* mLastNSensorRegistrations.editItemAt(mNextSensorRegIndex) = info, and the
\* index advanced; the history gets the same entry
WriteRegistration(info) ==
    /\ mLastNSensorRegistrations' =
           [i \in DOMAIN mLastNSensorRegistrations |->
                IF i = mNextSensorRegIndex THEN info ELSE mLastNSensorRegistrations[i]]
    /\ mNextSensorRegIndex' = advanceRegIndex(mNextSensorRegIndex)
    /\ registrations' = Append(registrations, info)

RingUnchanged ==
    UNCHANGED <<mLastNSensorRegistrations, mNextSensorRegIndex, registrations>>

RegisteredFrame ==
    /\ dumpOut.pc = "idle"
    /\ Len(registrations) < MaxRegistrations
    /\ mMapFlushEventsToConnections' = << >>
    /\ mSensorEventBuffer' = << >>
    /\ UNCHANGED <<receiver, nextHandle, runtimeCall, reconnection, dumpOut>>
    /\ UNCHANGED <<mHtRestricted, accessCall, rateCall, createCall, shellVars,
                   directVars, lateVars>>

\* SensorService::enable with its registration entry
EnableRegistered(c, h, access, batchOk, flushOk, activateOk) ==
    /\ mWakeLockRefCount[c] < MaxRefCount
    /\ \A x \in Handles : halPendingFlush[x] < MaxFlush
    /\ RegisteredFrame
    /\ IF ~getSensorInterfaceFromHandle(St, h) \/ ~access
       THEN /\ ret' = BAD_VALUE
            /\ CommitState(St)
            /\ RingUnchanged
       ELSE IF EnableRejectedByMode(mCurrentOperatingMode, mAllowListedPackage, c)
       THEN /\ ret' = INVALID_OPERATION
            /\ CommitState(St)
            /\ RingUnchanged
       ELSE LET r == enableLocked(St, c, h, batchOk, flushOk, activateOk)
            IN /\ ret' = r.err
               /\ CommitState(r.st)
               /\ WriteRegistration(
                      SensorRegistrationInfo(h, getPackageName(c), TRUE, r.err))

\* SensorService::disable with its registration entry
DisableRegistered(c, h) ==
    LET r == disableLocked(St, c, h)
    IN /\ RegisteredFrame
       /\ ret' = r.err
       /\ CommitState(r.st)
       /\ WriteRegistration(SensorRegistrationInfo(h, getPackageName(c), FALSE, r.err))

previousRegIndex(index) ==
    (index - 1 + SENSOR_REGISTRATIONS_BUF_SIZE) % SENSOR_REGISTRATIONS_BUF_SIZE

\* the do-while loop of dump, from the iteration that reads currentIndex;
\* limit: the iterations after which the loop is given up as not ending
RECURSIVE dumpLoop(_, _, _, _, _, _)
dumpLoop(ring, currentIndex, startIndex, lines, iterations, limit) ==
    IF iterations = limit
    THEN [pc |-> "looping", lines |-> lines, iterations |-> iterations]
    ELSE LET printed == IF isSentinel(ring[currentIndex]) THEN lines
                        ELSE Append(lines, ring[currentIndex])
             next == previousRegIndex(currentIndex)
         IN IF startIndex # next
            THEN dumpLoop(ring, next, startIndex, printed, iterations + 1, limit)
            ELSE [pc |-> "dumped", lines |-> printed, iterations |-> iterations + 1]

dumpRegistrations(ring, nextIndex) ==
    LET startIndex == previousRegIndex(nextIndex)
    IN dumpLoop(ring, startIndex, startIndex, << >>, 0,
                2 * SENSOR_REGISTRATIONS_BUF_SIZE)

\* SensorService::dump, "Previous Registrations", made with mLock held
DumpRegistrations ==
    /\ dumpOut.pc = "idle"
    /\ dumpOut' = dumpRegistrations(mLastNSensorRegistrations, mNextSensorRegIndex)
    /\ RingUnchanged
    /\ UNCHANGED <<mHtRestricted, accessCall, rateCall, createCall, shellVars,
                   directVars, lateVars>>
    /\ PolicyOnly

\* dump leaves the scope of the lock and writes the text
DumpReturn ==
    /\ dumpOut.pc # "idle"
    /\ dumpOut' = DumpIdle
    /\ RingUnchanged
    /\ UNCHANGED <<mHtRestricted, accessCall, rateCall, createCall, shellVars,
                   directVars, lateVars>>
    /\ PolicyOnly

EnableRing ==
    \E h \in {ACCEL, NOSENSOR}, access \in BOOLEAN, batchOk \in BOOLEAN,
       activateOk \in BOOLEAN :
        EnableRegistered("A", h, access, batchOk, FALSE, activateOk)

DisableRing == \E h \in {ACCEL, NOSENSOR} : DisableRegistered("A", h)

InitRing == InitWith({ACCEL}, FALSE, FALSE)

NextRing == EnableRing \/ DisableRing \/ DumpRegistrations \/ DumpReturn

SpecRing == InitRing /\ [][NextRing]_vars

\* the last n entries of the history, newest first
RECURSIVE NewestFirst(_, _)
NewestFirst(history, n) ==
    IF n = 0 \/ history = << >> THEN << >>
    ELSE <<history[Len(history)]>> \o
         NewestFirst(SubSeq(history, 1, Len(history) - 1), n - 1)

Min(a, b) == IF a < b THEN a ELSE b

\* the ring holds the most recent entries, the newest just before the index
RingHoldsMostRecent ==
    LET n == Min(Len(registrations), SENSOR_REGISTRATIONS_BUF_SIZE)
        recent == NewestFirst(registrations, n)
    IN \A k \in 0..(SENSOR_REGISTRATIONS_BUF_SIZE - 1) :
           LET i == (mNextSensorRegIndex - 1 - k + 2 * SENSOR_REGISTRATIONS_BUF_SIZE)
                        % SENSOR_REGISTRATIONS_BUF_SIZE
           IN mLastNSensorRegistrations[i] = (IF k < n THEN recent[k + 1] ELSE Sentinel)

\* the step is an enable that passes the access and operating-mode checks,
\* or a disable
RegistrationStep ==
    \/ \E c \in Conns, h \in Handles \cup {NOSENSOR} : DisableRegistered(c, h)
    \/ \E c \in Conns, h \in Handles :
           /\ EnablePassesGates(c, h, TRUE)
           /\ \E batchOk \in BOOLEAN, flushOk \in BOOLEAN, activateOk \in BOOLEAN :
                  EnableRegistered(c, h, TRUE, batchOk, flushOk, activateOk)

\* C28: every enable call that passes the access and operating-mode checks,
\* and every disable call, writes exactly one registration entry, with its
\* result code, at the ring's next index and advances the index modulo the
\* ring size: the index is always within [0, size) and the ring holds the
\* most recent size entries.  The dump visits every non-sentinel entry exactly
\* once, newest first, and ends even when every slot is a sentinel.
C28_RegistrationRing ==
    /\ [](/\ mNextSensorRegIndex \in 0..(SENSOR_REGISTRATIONS_BUF_SIZE - 1)
          /\ mNextSensorRegIndex = Len(registrations) % SENSOR_REGISTRATIONS_BUF_SIZE
          /\ RingHoldsMostRecent
          /\ dumpOut.pc # "looping"
          /\ dumpOut.pc = "dumped" =>
                 /\ dumpOut.lines =
                        NewestFirst(registrations,
                                    Min(Len(registrations), SENSOR_REGISTRATIONS_BUF_SIZE))
                 /\ dumpOut.iterations = SENSOR_REGISTRATIONS_BUF_SIZE)
    /\ [][RegistrationStep =>
            /\ Len(registrations') = Len(registrations) + 1
            /\ mLastNSensorRegistrations'[mNextSensorRegIndex].result = ret'
            /\ \A i \in DOMAIN mLastNSensorRegistrations :
                   i # mNextSensorRegIndex =>
                       mLastNSensorRegistrations'[i] = mLastNSensorRegistrations[i]]_vars

\* the ring has wrapped and a dump has printed its three newest entries, the
\* newest a failed enable
C28_Witness ==
    /\ dumpOut.pc = "dumped"
    /\ Len(registrations) > SENSOR_REGISTRATIONS_BUF_SIZE
    /\ Len(dumpOut.lines) = SENSOR_REGISTRATIONS_BUF_SIZE
    /\ dumpOut.lines[1].result = HAL_ERROR
    /\ dumpOut.lines[1] = mLastNSensorRegistrations[previousRegIndex(mNextSensorRegIndex)]

\* every slot is a sentinel and a dump has ended
C28_WitnessEmpty ==
    /\ dumpOut.pc = "dumped"
    /\ registrations = << >>
    /\ dumpOut.lines = << >>

(***************************************************************************)
(* SensorService::threadLoop, the expansion of a polled batch by the       *)
(* active virtual sensors.  The buffer has MAX_RECEIVE_BUFFER_EVENT_COUNT  *)
(* slots; count is an ssize_t and k a size_t of SizeBits bits, so count + k *)
(* is computed as a size_t.                                                *)
(***************************************************************************)
MAX_RECEIVE_BUFFER_EVENT_COUNT == 6
SizeBits == 4

ToSizeT(x) == x % (2 ^ SizeBits)

\* the virtual sensors a build can register, in the order of the set
VirtualCandidates == <<GRAVITY, 12>>

numEventMax(vcount) == MAX_RECEIVE_BUFFER_EVENT_COUNT \div (1 + vcount)

\* Variant: an output is stored without the test of count + k.
bufferFull_unchecked(count, k) == FALSE

\* if (count + k >= minBufferSize)
bufferFull(count, k) == ToSizeT(count + k) >= MAX_RECEIVE_BUFFER_EVENT_COUNT

\* si->process(&out, event[i]): the choice made for a polled event, and any
\* answer for a read past the polled events
processProduces(call, i, handle) ==
    IF i < call.count THEN <<i, handle>> \in call.produces ELSE call.garbage

\* for (int handle : mActiveVirtualSensors), for the polled event i
RECURSIVE expandEvent(_, _, _, _, _)
expandEvent(call, handles, i, k, writes) ==
    IF handles = << >> THEN [k |-> k, writes |-> writes]
    ELSE IF bufferFull(call.count, k) THEN [k |-> k, writes |-> writes]
    ELSE IF Head(handles) \notin call.registered
    THEN expandEvent(call, Tail(handles), i, k, writes)
    ELSE IF processProduces(call, i, Head(handles))
    THEN expandEvent(call, Tail(handles), i, k + 1,
                     Append(writes, ToSizeT(call.count + k)))
    ELSE expandEvent(call, Tail(handles), i, k, writes)

\* for (size_t i=0 ; i<size_t(count) && k<minBufferSize ; i++)
RECURSIVE expandFrom(_, _, _, _)
expandFrom(call, i, k, writes) ==
    IF i < ToSizeT(call.count) /\ k < MAX_RECEIVE_BUFFER_EVENT_COUNT
    THEN LET r == expandEvent(call, call.active, i, k, writes)
         IN expandFrom(call, i + 1, r.k, r.writes)
    ELSE [k |-> k, writes |-> writes]

\* if (count && vcount) ... count += k
expandVirtual(call) ==
    LET vcount == Cardinality(call.registered)
        r == IF call.count # 0 /\ vcount # 0 /\ call.active # << >>
             THEN expandFrom(call, 0, 0, << >>)
             ELSE [k |-> 0, writes |-> << >>]
    IN [call EXCEPT !.pc = "done", !.k = r.k, !.writes = r.writes,
                    !.length = call.count + r.k]

\* the members of the sequence s that are in the set keep
RECURSIVE Restrict(_, _)
Restrict(s, keep) ==
    IF s = << >> THEN << >>
    ELSE (IF Head(s) \in keep THEN <<Head(s)>> ELSE << >>) \o Restrict(Tail(s), keep)

\* an iteration: the registered virtual sensors, the active ones among them,
\* what poll returned (a count up to numEventMax, or -1 for a failure), and
\* which events each virtual sensor produces an output for
ExpandCalls ==
    UNION {
      UNION {
        UNION {
          [pc : {"idle"}, registered : {registered},
           active : {Restrict(VirtualCandidates, active)},
           count : {count},
           produces : SUBSET ((0..(count - 1)) \X active),
           garbage : BOOLEAN, k : {0}, writes : {<< >>}, length : {0}] :
          count \in -1..numEventMax(Cardinality(registered)) } :
        active \in SUBSET registered } :
      registered \in {{}, {GRAVITY}, {GRAVITY, 12}} }

ExpandVirtualSensors(call) ==
    /\ expandCall' = expandVirtual(call)
    /\ UNCHANGED <<mHtRestricted, accessCall, rateCall, createCall, shellVars,
                   directVars, ringVars, mRuntimeSensorHandler, runtimeQueueVars,
                   tailVars>>
    /\ PolicyOnly

ExpandVirtualSensorsAny == \E call \in ExpandCalls : ExpandVirtualSensors(call)

InitExpand == InitWith({ACCEL, GRAVITY}, FALSE, FALSE)

NextExpand == ExpandVirtualSensorsAny

SpecExpand == InitExpand /\ [][NextExpand]_vars

\* C29: with at most numEventMax = N / (1 + virtualSensorCount) events polled
\* into a buffer of N slots, the expansion never writes at an index >= N: the
\* k-th output is stored at index count + k, which is below N, and the batch
\* is at most N long after the expansion.
C29_ExpansionWithinBuffer ==
    expandCall.pc = "done" =>
        /\ \A j \in 1..Len(expandCall.writes) :
               /\ expandCall.writes[j] < MAX_RECEIVE_BUFFER_EVENT_COUNT
               /\ expandCall.writes[j] = ToSizeT(expandCall.count + j - 1)
        /\ Len(expandCall.writes) = expandCall.k
        /\ expandCall.length <= MAX_RECEIVE_BUFFER_EVENT_COUNT

\* as many events as poll may return, each expanded by the one virtual
\* sensor: the outputs follow the polled events and double the batch
C29_Witness ==
    /\ expandCall.pc = "done"
    /\ expandCall.count = numEventMax(1)
    /\ expandCall.active = <<GRAVITY>>
    /\ expandCall.k = expandCall.count
    /\ expandCall.writes[1] = expandCall.count
    /\ expandCall.length = 2 * expandCall.count

(***************************************************************************)
(* Runtime sensor events: sendRuntimeSensorEvent pushes onto                *)
(* mRuntimeSensorEventQueue under mRutimeSensorThreadMutex, and the         *)
(* RuntimeSensorHandler thread, started by the first successful             *)
(* registerRuntimeSensor, loops over processRuntimeSensorEvents.            *)
(***************************************************************************)
MaxRuntimeEvents == MAX_RECEIVE_BUFFER_EVENT_COUNT + 2

\* the injected events: events of the first runtime sensor, with timestamps
\* whose differences cmp represents, so that sortEventBuffer's comparator is
\* consistent on every batch
RuntimeTimestamps == 0..1
RuntimeEvents ==
    {TimedEvent(RUNTIME_SENSORS_HANDLE_BASE, ts) : ts \in RuntimeTimestamps}

\* the pop loop of processRuntimeSensorEvents: until the queue is empty or
\* count reaches maxBufferSize
RECURSIVE popFrom(_, _)
popFrom(queue, buffer) ==
    IF queue = << >> THEN [buffer |-> buffer, queue |-> queue]
    ELSE IF Len(buffer) >= MAX_RECEIVE_BUFFER_EVENT_COUNT
    THEN [buffer |-> buffer, queue |-> queue]
    ELSE popFrom(Tail(queue), Append(buffer, Head(queue)))

\* Variant: the events that do not fit the buffer are discarded.
popRuntimeEvents_discardExcess(queue) ==
    [popFrom(queue, << >>) EXCEPT !.queue = << >>]

popRuntimeEvents(queue) == popFrom(queue, << >>)

\* sortEventBuffer on a runtime batch.  The comparator is consistent on
\* RuntimeEvents and events of equal timestamp are equal, so the batch has
\* one ordered arrangement, computed here by insertion.
RECURSIVE insertByCmp(_, _)
insertByCmp(sorted, e) ==
    IF sorted = << >> THEN <<e>>
    ELSE IF cmp(e, Head(sorted)) < 0 THEN <<e>> \o sorted
    ELSE <<Head(sorted)>> \o insertByCmp(Tail(sorted), e)

RECURSIVE sortRuntimeEventBuffer(_)
sortRuntimeEventBuffer(buffer) ==
    IF buffer = << >> THEN << >>
    ELSE insertByCmp(sortRuntimeEventBuffer(SubSeq(buffer, 1, Len(buffer) - 1)),
                     buffer[Len(buffer)])

\* the loop over the active connections: sendEvents with a null scratch
\* buffer and a null flush map
RECURSIVE sendRuntimeToEach(_, _, _)
sendRuntimeToEach(st, conns, buffer) ==
    IF conns = << >> THEN st
    ELSE LET c == Head(conns)
             s1 == sendEvents(st, c, buffer, << >>, FALSE)
             s2 == IF hasOneShotSensors(s1, c)
                   THEN cleanupAutoDisabledSensorLocked(s1, c, buffer)
                   ELSE s1
         IN sendRuntimeToEach(s2, Tail(conns), buffer)

\* processRuntimeSensorEvents, the part under mLock
dispatchRuntimeBatch(st, sorted, buffer) ==
    LET s1 == recordLastValueLocked(st, buffer)
    IN sendRuntimeToEach(s1, SetToSeq(s1.mActiveConnections), sorted)

RuntimePolicyUnchanged ==
    UNCHANGED <<mHtRestricted, accessCall, rateCall, createCall, shellVars,
                directVars, ringVars, expandCall, mRuntimeSensorHandler, tailVars>>

\* SensorService::sendRuntimeSensorEvent
SendRuntimeSensorEvent(event) ==
    /\ Len(runtimeEnqueued) < MaxRuntimeEvents
    /\ mRuntimeSensorEventQueue' = Append(mRuntimeSensorEventQueue, event)
    /\ runtimeEnqueued' = Append(runtimeEnqueued, event)
    /\ UNCHANGED <<runtimeThread, mRuntimeSensorEventBuffer, runtimeDequeued,
                   runtimeHanded>>
    /\ RuntimePolicyUnchanged
    /\ PolicyOnly

\* the injected stream: the k-th event pushed carries timestamp k % 2, so
\* that every second event arrives before an event older than itself
NextRuntimeEvent ==
    TimedEvent(RUNTIME_SENSORS_HANDLE_BASE, (Len(runtimeEnqueued) + 1) % 2)

SendRuntimeSensorEventAny ==
    \E event \in RuntimeEvents :
        event = NextRuntimeEvent /\ SendRuntimeSensorEvent(event)

\* processRuntimeSensorEvents: the queue is empty, the thread waits on
\* mRuntimeSensorsCv
RuntimeThreadWait ==
    /\ mRuntimeSensorHandler
    /\ runtimeThread.pc = "top"
    /\ mRuntimeSensorEventQueue = << >>
    /\ runtimeThread' = [pc |-> "waiting"]
    /\ UNCHANGED <<mRuntimeSensorEventQueue, mRuntimeSensorEventBuffer,
                   runtimeEnqueued, runtimeDequeued, runtimeHanded>>
    /\ RuntimePolicyUnchanged
    /\ PolicyOnly

\* processRuntimeSensorEvents, under mRutimeSensorThreadMutex: the queue is
\* not empty (at the test, or when the wait's predicate lets the thread
\* through), and the events are popped into the buffer
RuntimeThreadCanTake ==
    /\ mRuntimeSensorHandler
    /\ runtimeThread.pc \in {"top", "waiting"}
    /\ mRuntimeSensorEventQueue # << >>

RuntimeThreadTake ==
    /\ RuntimeThreadCanTake
    /\ LET r == popRuntimeEvents(mRuntimeSensorEventQueue)
       IN /\ mRuntimeSensorEventBuffer' = r.buffer
          /\ mRuntimeSensorEventQueue' = r.queue
          /\ runtimeDequeued' = runtimeDequeued \o r.buffer
          /\ runtimeThread' = [pc |-> IF Len(r.buffer) # 0 THEN "send" ELSE "top"]
    /\ UNCHANGED <<runtimeEnqueued, runtimeHanded>>
    /\ RuntimePolicyUnchanged
    /\ PolicyOnly

\* processRuntimeSensorEvents, under mLock: the batch is recorded, sorted and
\* sent to the active connections; threadLoop calls the function again
RuntimeThreadCanSend ==
    /\ mRuntimeSensorHandler
    /\ runtimeThread.pc = "send"

RuntimeThreadSend ==
    /\ RuntimeThreadCanSend
    /\ LET sorted == sortRuntimeEventBuffer(mRuntimeSensorEventBuffer)
       IN /\ runtimeHanded' = Append(runtimeHanded, sorted)
          /\ CommitState(dispatchRuntimeBatch(St, sorted, mRuntimeSensorEventBuffer))
    /\ runtimeThread' = [pc |-> "top"]
    /\ mRuntimeSensorEventBuffer' = << >>
    /\ UNCHANGED <<mRuntimeSensorEventQueue, runtimeEnqueued, runtimeDequeued>>
    /\ RuntimePolicyUnchanged
    /\ mSensorEventBuffer' = << >>
    /\ mMapFlushEventsToConnections' = << >>
    /\ UNCHANGED <<receiver, nextHandle, runtimeCall, ret, reconnection>>

\* a client becomes an active connection
EnableRuntimeClient == Enable("A", ACCEL, TRUE, TRUE, TRUE, TRUE)

RegisterRuntimeSensor ==
    RuntimeRead("R1") \/ RuntimeIncrement("R1") \/ RuntimeRegister("R1")

InitRuntimeQueue == InitWith({ACCEL}, FALSE, FALSE)

NextRuntimeQueue ==
    \/ SendRuntimeSensorEventAny
    \/ RuntimeThreadWait
    \/ RuntimeThreadTake
    \/ RuntimeThreadSend
    \/ RegisterRuntimeSensor
    \/ EnableRuntimeClient

SpecRuntimeQueue == InitRuntimeQueue /\ [][NextRuntimeQueue]_vars

\* RuntimeSensorHandler::threadLoop calls processRuntimeSensorEvents until the
\* thread is asked to exit, which the service never does: a step of the
\* thread that stays possible is taken.  The two steps are told by the move
\* of the thread's position, which only RuntimeThreadTake and
\* RuntimeThreadSend make.
RuntimeThreadTakes == RuntimeThreadCanTake /\ runtimeThread' = [pc |-> "send"]
RuntimeThreadSends == RuntimeThreadCanSend /\ runtimeThread' = [pc |-> "top"]

SpecRuntimeQueueFair ==
    /\ SpecRuntimeQueue
    /\ WF_runtimeThread(RuntimeThreadTakes)
    /\ WF_runtimeThread(RuntimeThreadSends)

RECURSIVE TotalLen(_)
TotalLen(batches) ==
    IF batches = << >> THEN 0 ELSE Len(Head(batches)) + TotalLen(Tail(batches))

HandedCount == TotalLen(runtimeHanded)

Occurrences(seq, e) == Cardinality({i \in DOMAIN seq : seq[i] = e})

SameEvents(a, b) ==
    /\ Len(a) = Len(b)
    /\ \A e \in RuntimeEvents : Occurrences(a, e) = Occurrences(b, e)

\* the events popped for the k-th batch
DequeuedFor(k) ==
    LET before == TotalLen(SubSeq(runtimeHanded, 1, k - 1))
    IN SubSeq(runtimeDequeued, before + 1, before + Len(runtimeHanded[k]))

\* every event pushed is, in the order of the pushes, either in a batch
\* handed out, in the buffer about to be handed out, or still queued
QueueAccounted ==
    /\ runtimeEnqueued = runtimeDequeued \o mRuntimeSensorEventQueue
    /\ Len(runtimeDequeued) = HandedCount + Len(mRuntimeSensorEventBuffer)
    /\ IF runtimeThread.pc = "send"
       THEN /\ mRuntimeSensorEventBuffer # << >>
            /\ mRuntimeSensorEventBuffer =
                   SubSeq(runtimeDequeued, HandedCount + 1, Len(runtimeDequeued))
       ELSE mRuntimeSensorEventBuffer = << >>
    /\ \A k \in DOMAIN runtimeHanded :
           /\ runtimeHanded[k] # << >>
           /\ Len(runtimeHanded[k]) <= MAX_RECEIVE_BUFFER_EVENT_COUNT
           /\ SameEvents(runtimeHanded[k], DequeuedFor(k))
           /\ Len(runtimeHanded[k]) <= MaxBatch =>
                  runtimeHanded[k] \in sortEventBuffer(DequeuedFor(k))

\* a step that pops: at most maxBufferSize events, the oldest ones, the rest
\* left queued in their order
TakeStep ==
    (runtimeThread.pc # "send" /\ runtimeThread'.pc = "send") =>
        LET n == Min(Len(mRuntimeSensorEventQueue), MAX_RECEIVE_BUFFER_EVENT_COUNT)
        IN /\ mRuntimeSensorEventBuffer' = SubSeq(mRuntimeSensorEventQueue, 1, n)
           /\ mRuntimeSensorEventQueue' =
                  SubSeq(mRuntimeSensorEventQueue, n + 1, Len(mRuntimeSensorEventQueue))

\* a step that hands a batch out: every active connection is sent the whole
\* batch, and a queue that still holds events is not waited on
SendStep ==
    (runtimeThread.pc = "send" /\ runtimeThread'.pc = "top") =>
        /\ \A c \in mActiveConnections :
               /\ Len(sent'[c]) = Len(sent[c]) + Len(mRuntimeSensorEventBuffer)
               /\ \A i \in 1..Len(mRuntimeSensorEventBuffer) :
                      sent'[c][Len(sent[c]) + i].sensor = RUNTIME_SENSORS_HANDLE_BASE
        /\ runtimeHanded' # runtimeHanded

\* the thread starts to wait only on an empty queue
WaitStep ==
    (runtimeThread.pc # "waiting" /\ runtimeThread'.pc = "waiting") =>
        mRuntimeSensorEventQueue = << >>

RuntimeQueueSafe ==
    /\ []QueueAccounted
    /\ [][TakeStep /\ SendStep /\ WaitStep]_vars

\* C30: every event pushed by sendRuntimeSensorEvent is popped exactly once,
\* into exactly one batch handed to the active connections; events leave the
\* queue in the order they entered it; when more than maxBufferSize events
\* are queued the batch takes the oldest maxBufferSize and the rest stays
\* queued for the next iteration, which does not wait; the thread waits only
\* on an empty queue; and under fair scheduling of the RuntimeSensorHandler
\* thread, which exists from the first successful registerRuntimeSensor on,
\* every event pushed, before or after the thread's start, is eventually
\* handed out.
C30_RuntimeQueueDrained ==
    /\ RuntimeQueueSafe
    /\ \A i \in 1..MaxRuntimeEvents :
           (mRuntimeSensorHandler /\ Len(runtimeEnqueued) >= i) ~> (HandedCount >= i)

\* more events than the buffer holds were queued before the thread ran: the
\* first batch is full, the second holds the rest, out of timestamp order in
\* the queue and ordered in the batch, and the active connection was just
\* sent the second
C30_Witness ==
    /\ Len(runtimeHanded) = 2
    /\ Len(runtimeHanded[1]) = MAX_RECEIVE_BUFFER_EVENT_COUNT
    /\ HandedCount = MaxRuntimeEvents
    /\ runtimeDequeued[1].timestamp > runtimeDequeued[2].timestamp
    /\ runtimeHanded[1][1].timestamp < runtimeHanded[1][MAX_RECEIVE_BUFFER_EVENT_COUNT].timestamp
    /\ "A" \in mActiveConnections
    /\ Len(sent["A"]) = Len(runtimeHanded[2])
    /\ runtimeThread.pc = "top"
    /\ mRuntimeSensorEventQueue = << >>

(***************************************************************************)
(* The sampling period handed to the HAL: the clamps of enable before      *)
(* sensor->batch, and setEventRate.  A sensor declares getMaxDelay() in    *)
(* microseconds and getMinDelayNs() in nanoseconds; a declaration is       *)
(* well formed when its maximum is 0 (none) or not below its minimum.      *)
(***************************************************************************)
MaxDelayUs == 2

MinDelaysNs == {k * 1000 : k \in (-1)..MaxDelayUs}
MaxDelaysUs == 0..MaxDelayUs
SensorDelays ==
    {d \in [minDelayNs : MinDelaysNs, maxDelay : MaxDelaysUs] :
        d.maxDelay = 0 \/ d.minDelayNs <= d.maxDelay * 1000}

\* requested periods: negative, zero, between and beyond the declared delays
PeriodsNs == {k * 500 : k \in (-3)..(2 * MaxDelayUs + 2)}

\* Variant: the period is only clamped from above.
batchSamplingPeriod_noMinimum(samplingPeriodNs, delays) ==
    LET maxDelayNs == delays.maxDelay * 1000
    IN IF maxDelayNs > 0 /\ samplingPeriodNs > maxDelayNs
       THEN maxDelayNs ELSE samplingPeriodNs

\* enable, "Check maximum delay for the sensor" to the batch call
batchSamplingPeriod(samplingPeriodNs, delays) ==
    LET maxDelayNs == delays.maxDelay * 1000
        p1 == IF maxDelayNs > 0 /\ samplingPeriodNs > maxDelayNs
              THEN maxDelayNs ELSE samplingPeriodNs
        minDelayNs == delays.minDelayNs
    IN IF p1 < minDelayNs THEN minDelayNs ELSE p1

\* setEventRate: the status it returns before setDelay, or the period it
\* passes to setDelay, whose status it returns
setEventRate(ns, delays, sensorFound, canAccess, setDelayStatus) ==
    IF ~sensorFound \/ ~canAccess
    THEN [status |-> BAD_VALUE, ns |-> ns, setDelay |-> FALSE]
    ELSE IF ns < 0
    THEN [status |-> BAD_VALUE, ns |-> ns, setDelay |-> FALSE]
    ELSE [status |-> setDelayStatus, ns |-> IF ns < delays.minDelayNs THEN delays.minDelayNs ELSE ns,
          setDelay |-> TRUE]

PeriodFrame ==
    /\ UNCHANGED <<mHtRestricted, accessCall, rateCall, createCall, shellVars,
                   directVars, ringVars, expandCall, mRuntimeSensorHandler,
                   runtimeQueueVars, exceptPeriod>>
    /\ PolicyOnly

\* enable reaches sensor->batch
EnableBatch(samplingPeriodNs, delays) ==
    /\ periodCall' = [pc |-> "done", op |-> "enable", status |-> NO_ERROR,
                      delays |-> delays, ns |-> batchSamplingPeriod(samplingPeriodNs, delays), requested |-> samplingPeriodNs,
                      toHal |-> TRUE]
    /\ PeriodFrame

SetEventRate(ns, delays, sensorFound, canAccess, setDelayStatus) ==
    /\ LET r == setEventRate(ns, delays, sensorFound, canAccess, setDelayStatus)
       IN periodCall' = [pc |-> "done", op |-> "setEventRate", status |-> r.status,
                         delays |-> delays, ns |-> r.ns,
                         requested |-> ns, toHal |-> r.setDelay]
    /\ PeriodFrame

EnableBatchAny ==
    \E samplingPeriodNs \in PeriodsNs, delays \in SensorDelays :
        EnableBatch(samplingPeriodNs, delays)

SetEventRateAny ==
    \E ns \in PeriodsNs, delays \in SensorDelays, sensorFound \in BOOLEAN,
       canAccess \in BOOLEAN, setDelayStatus \in {NO_ERROR, HAL_ERROR} :
        SetEventRate(ns, delays, sensorFound, canAccess, setDelayStatus)

InitPeriod == InitWith({ACCEL}, FALSE, FALSE)

NextPeriod == EnableBatchAny \/ SetEventRateAny

SpecPeriod == InitPeriod /\ [][NextPeriod]_vars

\* C31: the period enable passes to batch is at least the sensor's minimum
\* delay and, when the sensor declares a maximum delay, at most that maximum,
\* and is the requested period when that lies within the two; setEventRate
\* returns BAD_VALUE for a negative period without calling setDelay, and
\* otherwise passes the larger of the period and the minimum delay.
C31_PeriodWithinDelays ==
    periodCall.pc = "done" =>
        LET d == periodCall.delays
            maxDelayNs == d.maxDelay * 1000
            inRange(p) == p >= d.minDelayNs /\ (d.maxDelay # 0 => p <= maxDelayNs)
        IN IF periodCall.op = "enable"
           THEN /\ inRange(periodCall.ns)
                /\ inRange(periodCall.requested) => periodCall.ns = periodCall.requested
           ELSE /\ periodCall.requested < 0 =>
                    periodCall.status = BAD_VALUE /\ ~periodCall.toHal
                /\ periodCall.toHal =>
                    /\ periodCall.ns >= d.minDelayNs
                    /\ periodCall.ns >= periodCall.requested
                    /\ periodCall.ns \in {d.minDelayNs, periodCall.requested}

\* a period below the minimum raised by enable, one above the maximum lowered
C31_Witness ==
    /\ periodCall.pc = "done"
    /\ periodCall.op = "enable"
    /\ periodCall.delays.maxDelay > 0
    /\ periodCall.requested > periodCall.delays.maxDelay * 1000
    /\ periodCall.ns = periodCall.delays.maxDelay * 1000
    /\ periodCall.delays.minDelayNs > 0

(***************************************************************************)
(* Proximity-active listeners.  notifyProximityStateLocked takes the next  *)
(* value of curProxCallbackSeq and detaches a thread that sleeps until     *)
(* completedCallbackSeq is the value before its own, calls the listeners   *)
(* it was given, and increments completedCallbackSeq.  Both counters are   *)
(* std::atomic_uint64_t and stay far below 2^64 here.                      *)
(***************************************************************************)
MaxNotifications == 3

ALREADY_EXISTS == "ALREADY_EXISTS"
NAME_NOT_FOUND == "NAME_NOT_FOUND"

Listeners == {"L1", "L2"}
NullListener == "nullptr"

\* Variant: the thread does not wait for its turn.
proxTurn_any(completed, mySeq) == TRUE

\* the test of the thread's sleep loop
proxTurn(completed, mySeq) == completed = mySeq - 1

\* notifyProximityStateLocked: the counter after the call and the thread
\* detached, which holds isActive, mySeq and a copy of the listeners
notifyProximityStateLocked(cur, threads, isActive, listeners) ==
    LET mySeq == cur + 1
    IN [cur |-> mySeq,
        threads |-> Append(threads,
            [pc |-> "waiting", isActive |-> isActive, mySeq |-> mySeq,
             listenersCopy |-> listeners, called |-> 0])]

InList(listeners, callback) == \E i \in DOMAIN listeners : listeners[i] = callback

\* Variant: the listener is appended without the search for it.
addProximityActiveListener_unchecked(listeners, callback) ==
    IF callback = NullListener
    THEN [status |-> BAD_VALUE, listeners |-> listeners, notify |-> FALSE]
    ELSE [status |-> OK, listeners |-> Append(listeners, callback), notify |-> TRUE]

addProximityActiveListener(listeners, callback) ==
    IF callback = NullListener
    THEN [status |-> BAD_VALUE, listeners |-> listeners, notify |-> FALSE]
    ELSE IF InList(listeners, callback)
    THEN [status |-> ALREADY_EXISTS, listeners |-> listeners, notify |-> FALSE]
    ELSE [status |-> OK, listeners |-> Append(listeners, callback), notify |-> TRUE]

\* vector::erase of the first element equal to callback
RECURSIVE eraseFirst(_, _)
eraseFirst(listeners, callback) ==
    IF listeners = << >> THEN << >>
    ELSE IF Head(listeners) = callback THEN Tail(listeners)
    ELSE <<Head(listeners)>> \o eraseFirst(Tail(listeners), callback)

removeProximityActiveListener(listeners, callback) ==
    IF callback = NullListener
    THEN [status |-> BAD_VALUE, listeners |-> listeners]
    ELSE IF InList(listeners, callback)
    THEN [status |-> OK, listeners |-> eraseFirst(listeners, callback)]
    ELSE [status |-> NAME_NOT_FOUND, listeners |-> listeners]

ProxFrame ==
    /\ UNCHANGED <<mHtRestricted, accessCall, rateCall, createCall, shellVars,
                   directVars, ringVars, expandCall, mRuntimeSensorHandler,
                   runtimeQueueVars, exceptProx>>
    /\ PolicyOnly

\* mProxSensorHandles: the proximity sensors of the HAL's list
mProxSensorHandles == mSensors \cap {PROX}

\* checkAndReportProxStateChangeLocked; isActive: whether the device reports
\* one of the proximity sensors active
CheckAndReportProxStateChangeLocked(isActive) ==
    /\ curProxCallbackSeq < MaxNotifications
    /\ IF mProxSensorHandles # {} /\ isActive # mLastReportedProxIsActive
       THEN LET r == notifyProximityStateLocked(curProxCallbackSeq, proxThreads,
                                                isActive, mProximityActiveListeners)
            IN /\ curProxCallbackSeq' = r.cur
               /\ proxThreads' = r.threads
               /\ mLastReportedProxIsActive' = isActive
       ELSE UNCHANGED <<curProxCallbackSeq, proxThreads, mLastReportedProxIsActive>>
    /\ UNCHANGED <<mProximityActiveListeners, completedCallbackSeq, proxDelivered,
                   proxCall>>
    /\ ProxFrame

AddProximityActiveListener(callback) ==
    /\ curProxCallbackSeq < MaxNotifications
    /\ LET r == addProximityActiveListener(mProximityActiveListeners, callback)
           n == notifyProximityStateLocked(curProxCallbackSeq, proxThreads,
                                           mLastReportedProxIsActive, <<callback>>)
       IN /\ mProximityActiveListeners' = r.listeners
          /\ proxCall' = [pc |-> "done", op |-> "add", status |-> r.status,
                          callback |-> callback]
          /\ IF r.notify
             THEN curProxCallbackSeq' = n.cur /\ proxThreads' = n.threads
             ELSE UNCHANGED <<curProxCallbackSeq, proxThreads>>
    /\ UNCHANGED <<mLastReportedProxIsActive, completedCallbackSeq, proxDelivered>>
    /\ ProxFrame

RemoveProximityActiveListener(callback) ==
    /\ LET r == removeProximityActiveListener(mProximityActiveListeners, callback)
       IN /\ mProximityActiveListeners' = r.listeners
          /\ proxCall' = [pc |-> "done", op |-> "remove", status |-> r.status,
                          callback |-> callback]
    /\ UNCHANGED <<mLastReportedProxIsActive, curProxCallbackSeq, completedCallbackSeq,
                   proxThreads, proxDelivered>>
    /\ ProxFrame

ProxThreadFrame ==
    /\ UNCHANGED <<mProximityActiveListeners, mLastReportedProxIsActive,
                   curProxCallbackSeq, proxCall>>
    /\ ProxFrame

\* the k-th thread detached finds completedCallbackSeq at mySeq - 1
ProxThreadWake(k) ==
    /\ k \in DOMAIN proxThreads
    /\ proxThreads[k].pc = "waiting"
    /\ proxTurn(completedCallbackSeq, proxThreads[k].mySeq)
    /\ proxThreads' = [proxThreads EXCEPT ![k].pc = "calling"]
    /\ UNCHANGED <<completedCallbackSeq, proxDelivered>>
    /\ ProxThreadFrame

\* it calls onProximityActive on its next listener
ProxThreadCall(k) ==
    /\ k \in DOMAIN proxThreads
    /\ proxThreads[k].pc = "calling"
    /\ proxThreads[k].called < Len(proxThreads[k].listenersCopy)
    /\ proxThreads' = [proxThreads EXCEPT ![k].called = @ + 1]
    /\ proxDelivered' = Append(proxDelivered,
           [isActive |-> proxThreads[k].isActive,
            seq |-> proxThreads[k].mySeq,
            listener |-> proxThreads[k].listenersCopy[proxThreads[k].called + 1]])
    /\ UNCHANGED completedCallbackSeq
    /\ ProxThreadFrame

\* completedCallbackSeq++ after the last listener
ProxThreadComplete(k) ==
    /\ k \in DOMAIN proxThreads
    /\ proxThreads[k].pc = "calling"
    /\ proxThreads[k].called = Len(proxThreads[k].listenersCopy)
    /\ proxThreads' = [proxThreads EXCEPT ![k].pc = "done"]
    /\ completedCallbackSeq' = completedCallbackSeq + 1
    /\ UNCHANGED proxDelivered
    /\ ProxThreadFrame

ProxThreadStep(k) == ProxThreadWake(k) \/ ProxThreadCall(k) \/ ProxThreadComplete(k)

ProxThreads == 1..(MaxNotifications + 1)

CheckAndReportProxAny == \E isActive \in BOOLEAN : CheckAndReportProxStateChangeLocked(isActive)
AddProximityActiveListenerAny ==
    \E callback \in Listeners \cup {NullListener} : AddProximityActiveListener(callback)
RemoveProximityActiveListenerAny ==
    \E callback \in Listeners \cup {NullListener} : RemoveProximityActiveListener(callback)
ProxThreadWakeAny == \E k \in ProxThreads : ProxThreadWake(k)
ProxThreadCallAny == \E k \in ProxThreads : ProxThreadCall(k)
ProxThreadCompleteAny == \E k \in ProxThreads : ProxThreadComplete(k)

InitProx == InitWith({ACCEL, PROX}, FALSE, FALSE)

NextProx ==
    \/ CheckAndReportProxAny
    \/ AddProximityActiveListenerAny
    \/ RemoveProximityActiveListenerAny
    \/ ProxThreadWakeAny
    \/ ProxThreadCallAny
    \/ ProxThreadCompleteAny

SpecProx == InitProx /\ [][NextProx]_vars

\* a detached thread runs: its sleep loop polls every millisecond, and a
\* listener's onProximityActive returns
SpecProxFair ==
    /\ SpecProx
    /\ \A k \in ProxThreads : WF_vars(ProxThreadStep(k))

CallsWithSeq(n) == SelectSeq(proxDelivered, LAMBDA d : d.seq = n)

ProxOrdered ==
    /\ Len(proxThreads) = curProxCallbackSeq
    /\ \A k \in DOMAIN proxThreads :
           LET t == proxThreads[k]
           IN /\ t.mySeq = k
              /\ t.pc = "done" <=> k <= completedCallbackSeq
              /\ t.pc = "calling" => k = completedCallbackSeq + 1
              /\ t.pc = "waiting" => t.called = 0
              /\ CallsWithSeq(k) =
                     [i \in 1..t.called |->
                         [isActive |-> t.isActive, seq |-> k,
                          listener |-> t.listenersCopy[i]]]
              /\ t.pc = "done" => t.called = Len(t.listenersCopy)
    /\ \A i, j \in DOMAIN proxDelivered :
           i < j => proxDelivered[i].seq <= proxDelivered[j].seq

\* C32: the notifications hold the sequence numbers 1, 2, ... in the order
\* they were issued; the thread holding n calls its first listener only after
\* the thread holding n - 1 made all its calls and incremented the completed
\* counter, so the calls of the listeners are in the order of the
\* notifications; and under fair scheduling of the detached threads every
\* notification issued is eventually delivered.
C32_ProximityNotificationsOrdered ==
    /\ []ProxOrdered
    /\ \A n \in 1..MaxNotifications :
           (curProxCallbackSeq >= n) ~> (completedCallbackSeq >= n)

\* two notifications were issued before the first thread ran, and both were
\* delivered to a listener, the earlier one first
C32_Witness ==
    /\ completedCallbackSeq = 2
    /\ Len(proxDelivered) >= 2
    /\ proxDelivered[1].seq = 1
    /\ proxDelivered[Len(proxDelivered)].seq = 2
    /\ proxDelivered[1].isActive # proxDelivered[Len(proxDelivered)].isActive

NoDuplicateListener ==
    /\ \A i, j \in DOMAIN mProximityActiveListeners :
           mProximityActiveListeners[i] = mProximityActiveListeners[j] => i = j
    /\ ~InList(mProximityActiveListeners, NullListener)

ListenerCallStep ==
    proxCall' # proxCall =>
        LET c == proxCall'
            present == InList(mProximityActiveListeners, c.callback)
            unchanged == /\ mProximityActiveListeners' = mProximityActiveListeners
                         /\ curProxCallbackSeq' = curProxCallbackSeq
                         /\ proxThreads' = proxThreads
        IN IF c.op = "add"
           THEN IF c.callback = NullListener THEN c.status = BAD_VALUE /\ unchanged
                ELSE IF present THEN c.status = ALREADY_EXISTS /\ unchanged
                ELSE /\ c.status = OK
                     /\ mProximityActiveListeners' =
                            Append(mProximityActiveListeners, c.callback)
                     /\ curProxCallbackSeq' = curProxCallbackSeq + 1
                     /\ Len(proxThreads') = Len(proxThreads) + 1
                     /\ proxThreads'[Len(proxThreads')].listenersCopy = <<c.callback>>
                     /\ proxThreads'[Len(proxThreads')].isActive =
                            mLastReportedProxIsActive
                     /\ mLastReportedProxIsActive' = mLastReportedProxIsActive
           ELSE IF c.callback # NullListener /\ ~present
                THEN c.status = NAME_NOT_FOUND /\ unchanged
                ELSE IF c.callback = NullListener THEN c.status = BAD_VALUE /\ unchanged
                ELSE /\ c.status = OK
                     /\ ~InList(mProximityActiveListeners', c.callback)
                     /\ Len(mProximityActiveListeners') =
                            Len(mProximityActiveListeners) - 1
                     /\ \A l \in Listeners \ {c.callback} :
                            InList(mProximityActiveListeners', l) =
                                InList(mProximityActiveListeners, l)
                     /\ curProxCallbackSeq' = curProxCallbackSeq

\* C33: the listener list never holds a listener twice nor a null listener;
\* adding null returns BAD_VALUE, adding a listener of the list returns
\* ALREADY_EXISTS, both without a change; a successful add appends the
\* listener and issues one notification, of the last reported state, to that
\* listener alone; removing an absent listener returns NAME_NOT_FOUND without
\* a change, removing a present one deletes that entry and no other.
C33_ListenerListHasNoDuplicates ==
    /\ []NoDuplicateListener
    /\ [][ListenerCallStep]_vars

\* both listeners added, a second add of one refused, and one removed
C33_Witness ==
    /\ proxCall.pc = "done"
    /\ proxCall.op = "remove"
    /\ proxCall.status = OK
    /\ Len(mProximityActiveListeners) = 1
    /\ curProxCallbackSeq = 2
    /\ proxThreads[2].listenersCopy # proxThreads[1].listenersCopy

(***************************************************************************)
(* C34: changeOperatingMode returns NO_ERROR only when the operating mode  *)
(* is the requested mode when it returns; whenever the mode is not the     *)
(* requested one afterwards (an illegal transition, a missing allowlist    *)
(* argument, a failed set_mode on the way into or out of an injection      *)
(* mode) it returns an error and leaves the allowlisted package as it was. *)
(***************************************************************************)
C34_SuccessMeansTargetMode ==
    [][\A target \in Modes, hasArgs \in BOOLEAN, arg \in AllowListArgs,
          setModeOk \in BOOLEAN :
         ChangeMode(target, hasArgs, arg, setModeOk) =>
             /\ ret' = NO_ERROR => mCurrentOperatingMode' = target
             /\ mCurrentOperatingMode' # target =>
                    /\ ret' # NO_ERROR
                    /\ mAllowListedPackage' = mAllowListedPackage]_vars

(***************************************************************************)
(* C35: while sensor privacy is enabled (from the processing of the        *)
(* privacy-enabled notification to that of the privacy-disabled one) all   *)
(* sensors are disabled on the HAL, whatever operating-mode changes and    *)
(* UID state changes happen meanwhile; and they are disabled for as long   *)
(* as the mode is Restricted.                                              *)
(***************************************************************************)
C35_DisabledWhilePrivateOrRestricted ==
    (mSensorPrivacyEnabled \/ mCurrentOperatingMode = RESTRICTED) => ~devEnabled

(***************************************************************************)
(* The UID state given to the device.  Connection A belongs to the         *)
(* application of package "com.d1"; it subscribes and unsubscribes while   *)
(* the activity manager reports the UID active or idle and the shell sets  *)
(* and resets an override for it.                                          *)
(***************************************************************************)
EnableUidClient == \E activateOk \in BOOLEAN : Enable("A", ACCEL, TRUE, TRUE, TRUE, activateOk)

DisableUidClient == Disable("A", ACCEL)

InitUidState == InitWith({ACCEL}, FALSE, FALSE)

NextUidState ==
    \/ EnableUidClient \/ DisableUidClient
    \/ UidActive("D1") \/ UidIdle("D1")
    \/ ShellCommandAny \/ ShellReturn

SpecUidState == InitUidState /\ [][NextUidState]_vars

\* UidPolicy::isUidActive as a UidState: the override when there is one, the
\* observed state otherwise
effectiveUidState(d) ==
    IF isUidActiveLocked(mOverrideUids, mActiveUids, uidOf(d))
    THEN UID_STATE_ACTIVE ELSE UID_STATE_IDLE

\* C36: for every active event connection, the UID state last given to the
\* device for it is the effective state of its UID: the shell's override when
\* one is in force, the observed active/idle state otherwise; a callback that
\* leaves the effective state as it was gives the device no other state.
C36_PushedUidStateIsEffective ==
    \A c \in mActiveConnections :
        halUidState[c] # UID_STATE_NONE => halUidState[c] = effectiveUidState(getUid(c))

\* C37: an event connection is in the connection holder's active set exactly
\* when it has at least one subscribed sensor: the first enable adds it, and
\* disable, auto-disable, a failed enable, the disconnection of a dynamic
\* sensor and the unregistration of a runtime sensor remove it with its last
\* subscription.
C37_ActiveIffSubscribed ==
    \A c \in Conns : c \in mActiveConnections <=> mSensorInfo[c] # {}

\* C38: a createSensorEventConnection call that requests an injection mode
\* (DATA_INJECTION, REPLAY_DATA_INJECTION or HAL_BYPASS_REPLAY_DATA_INJECTION)
\* returns a connection, and adds it to the connection holder, only while the
\* service is in the requested mode and only for an allowlisted package; in
\* NORMAL or RESTRICTED mode no caller obtains an injection connection.
C38_InjectionConnectionNeedsInjectionMode ==
    [][CreateStep /\ isInjectionMode(createCall'.requestedMode) =>
         /\ createCall'.result =>
                /\ mCurrentOperatingMode = createCall'.requestedMode
                /\ contains(getPackageName(createCall'.conn), mAllowListedPackage)
         /\ createCall'.conn \in mActiveConnections' \ mActiveConnections =>
                /\ mCurrentOperatingMode = createCall'.requestedMode
                /\ contains(getPackageName(createCall'.conn), mAllowListedPackage)]_vars

\* C39: registerRuntimeSensor calls that overlap never hold the same handle
\* drawn from the shared counter, and every call that drew a handle succeeds:
\* it returns the handle it drew, under which its sensor is registered.
C39_ConcurrentRegistrationsDistinct ==
    /\ [](\A t1, t2 \in RuntimeCallers :
              /\ t1 # t2
              /\ runtimeCall[t1].pc = "drawn"
              /\ runtimeCall[t2].pc = "drawn"
              => runtimeCall[t1].handle # runtimeCall[t2].handle)
    /\ [][\A t \in RuntimeCallers :
              RuntimeRegister(t) =>
                  /\ runtimeCall'[t].result = runtimeCall[t].handle
                  /\ runtimeCall[t].handle \in mSensors']_vars

\* the sign of an integer
sign(x) == IF x < 0 THEN -1 ELSE IF x = 0 THEN 0 ELSE 1

\* C40: for any two events of a dispatched batch, the result of the
\* comparator of sortEventBuffer is negative, zero or positive exactly when
\* the left timestamp is less than, equal to or greater than the right one,
\* whatever the distance between the two timestamps.
C40_ComparatorOrdersByTimestamp ==
    \A i, j \in 1..Len(mSensorEventBuffer) :
        sign(cmp(mSensorEventBuffer[i], mSensorEventBuffer[j]))
            = sign(mSensorEventBuffer[i].timestamp - mSensorEventBuffer[j].timestamp)

====
